---- MODULE Spec2Model ----
(***************************************************************************)
(* Incremental indexing engine of docbot: manifest diffing, the embedding  *)
(* batcher and the sync coordinator of the docs corpus (DocIndex), as run   *)
(* by the index command without codebase paths.                            *)
(*                                                                         *)
(* Strings are run-length encoded: a string is a sequence of runs <<k,n>>, *)
(* n >= 1 characters of kind k, adjacent runs of different kinds.  Kinds   *)
(* "a" and "b" are non-whitespace characters, "sp" is a space and "nl" a   *)
(* line feed.  Lengths are exact JavaScript string lengths.                *)
(***************************************************************************)
EXTENDS Integers, Sequences, FiniteSets, TLC

VARIABLES
    texts,        \* embedTexts: the argument list
    embOut,       \* embedTexts: [done, emb], emb the returned vectors
    embCalls,     \* embedTexts: the embedMany calls issued, in order
    dCurrent,     \* diffManifest: currentFiles (path -> hash)
    dManifest,    \* diffManifest: manifestFiles (path -> entry)
    dOut,         \* diffManifest: [done, diff], diff the returned ManifestDiff
    input,        \* a called function: [fn, ...arguments]
    output,       \* its result: [done, ...]
    corpus,       \* the manifest section of the coordinator: "docs"
    fs,           \* the corpus directory: path -> file content
    disk,         \* the manifest file: [kind, m]
    store,        \* the points of the corpus' collection
    manifest,     \* the EmbeddingManifest object of the running process
    pos,          \* [pc, phase, idx]: the await the index command is at
    call,         \* the awaited call: "none", "pending", "ok" or "err"
    diff,         \* the ManifestDiff of the run
    fileHashes,   \* the scan result of the run: path -> hash
    now,          \* Date.now(), advanced once per run
    forced,       \* the run was started with --force
    loaded,       \* history: the manifest as loaded at the start of the run
    processed,    \* history: paths whose loop body finished in this run
    issued,       \* history: <<kind, path>> of the store / provider calls of this run
    failure,      \* history: [op, path] of the call that failed in this run
    indexed,      \* history: <<path, hash>> whose chunks were embedded and upserted
    clean,        \* history: the last run completed and no file changed since
    prevClean,    \* history: value of clean when this run started
    retry,        \* history: the path whose embed or upsert failed in the last
                  \* run and that was not edited since (0: none)
    collection,   \* query: the points of the collection searched, [path, content]
    qCall,        \* query: the method called, [fn, query, limit, results]
    qPc,          \* query: the await the method is at
    inflight,     \* query: the provider / store / file calls not yet settled
    cands,        \* query: the results parameter of rerankResults
    qVec,         \* query: queryVector / queryEmbedding, <<>> before it is known
    scored,       \* query: index of a result -> its new score, for the settled ones
    mvPc,         \* query: moveContent, file -> the await its indexFile is at
    embedLog,     \* history: the embedText calls issued, [by, who, text]
    qOut          \* query: [done, ...] the settled promise of the method

embedVars == <<texts, embOut, embCalls>>
diffVars == <<dCurrent, dManifest, dOut>>
callVars == <<input, output>>
queryVars == <<collection, qCall, qPc, inflight, cands, qVec, scored, mvPc,
               embedLog, qOut>>
syncVars == <<corpus, fs, disk, store, manifest, pos, call, diff, fileHashes,
              now, forced, loaded, processed, issued, failure, indexed,
              clean, prevClean, retry>>

vars == <<texts, embOut, embCalls, dCurrent, dManifest, dOut, input, output,
          corpus, fs, disk,
          store, manifest, pos, call, diff, fileHashes, now, forced, loaded,
          processed, issued, failure, indexed, clean, prevClean, retry,
          collection, qCall, qPc, inflight, cands, qVec, scored, mvPc,
          embedLog, qOut>>

----------------------------------------------------------------------------
(* Strings                                                                 *)

Run(k, n) == <<k, n>>

IsWs(k) == k \in {"sp", "nl"}

\* two canonical run lists joined: the runs that meet merge when of one kind
Glue(l, r) ==
    IF l = <<>> THEN r
    ELSE IF r = <<>> THEN l
    ELSE IF l[Len(l)][1] = r[1][1]
         THEN SubSeq(l, 1, Len(l) - 1)
                  \o <<Run(r[1][1], l[Len(l)][2] + r[1][2])>> \o Tail(r)
         ELSE l \o r

\* canonical form of a run list: no empty run, no two adjacent runs of one kind
RECURSIVE Norm(_)
Norm(s) ==
    IF Len(s) = 0 THEN <<>>
    ELSE IF Len(s) = 1 THEN (IF s[1][2] = 0 THEN <<>> ELSE s)
    ELSE LET h == Len(s) \div 2
         IN  Glue(Norm(SubSeq(s, 1, h)), Norm(SubSeq(s, h + 1, Len(s))))

\* s + t
Concat(s, t) == Norm(s \o t)

\* number of characters of the runs lo..hi of s
RECURSIVE StrLenFrom(_, _, _)
StrLenFrom(s, lo, hi) ==
    IF lo > hi THEN 0
    ELSE IF lo = hi THEN s[lo][2]
    ELSE LET mid == (lo + hi) \div 2
         IN  StrLenFrom(s, lo, mid) + StrLenFrom(s, mid + 1, hi)

\* s.length
StrLen(s) == StrLenFrom(s, 1, Len(s))

RECURSIVE DropLeadWs(_)
DropLeadWs(s) ==
    IF s # <<>> /\ IsWs(s[1][1]) THEN DropLeadWs(Tail(s)) ELSE s

RECURSIVE DropTrailWs(_)
DropTrailWs(s) ==
    IF s # <<>> /\ IsWs(s[Len(s)][1])
    THEN DropTrailWs(SubSeq(s, 1, Len(s) - 1)) ELSE s

\* s.trim()
Trim(s) == DropTrailWs(DropLeadWs(s))

Min(x, y) == IF x < y THEN x ELSE y
Max(x, y) == IF x > y THEN x ELSE y

RECURSIVE SliceFrom(_, _, _, _, _)
SliceFrom(s, i, off, from, to) ==
    IF i > Len(s) \/ off >= to THEN <<>>
    ELSE LET lo == Max(off, from)
             hi == Min(off + s[i][2], to)
             rest == SliceFrom(s, i + 1, off + s[i][2], from, to)
         IN  IF hi > lo THEN <<Run(s[i][1], hi - lo)>> \o rest ELSE rest

\* s.slice(from, to), 0 <= from <= to
Slice(s, from, to) == Norm(SliceFrom(s, 1, 0, from, to))

Repeat(x, n) == [i \in 1..n |-> x]

\* the lines of the runs lo..hi of s: a run of k line feeds ends k lines, the
\* last line of one half continues in the first line of the other
RECURSIVE SplitNlFrom(_, _, _)
SplitNlFrom(s, lo, hi) ==
    IF lo > hi THEN <<<<>>>>
    ELSE IF lo = hi
         THEN (IF s[lo][1] = "nl" THEN Repeat(<<>>, s[lo][2] + 1) ELSE <<<<s[lo]>>>>)
    ELSE LET mid == (lo + hi) \div 2
             l == SplitNlFrom(s, lo, mid)
             r == SplitNlFrom(s, mid + 1, hi)
         IN  SubSeq(l, 1, Len(l) - 1) \o <<l[Len(l)] \o r[1]>> \o Tail(r)

\* s.split("\n")
SplitNl(s) == SplitNlFrom(s, 1, Len(s))

RECURSIVE SumLenFrom(_, _)
SumLenFrom(ts, i) ==
    IF i > Len(ts) THEN 0 ELSE StrLen(ts[i]) + SumLenFrom(ts, i + 1)

\* texts.reduce((sum, t) => sum + t.length, 0)
SumLen(ts) == SumLenFrom(ts, 1)

----------------------------------------------------------------------------
(* Embedding batcher (db/embed)                                            *)

MAX_TOKENS_PER_BATCH == 6000
\* Math.floor(MAX_TOKENS_PER_BATCH * 1.2)
MAX_CHARS_PER_BATCH == (MAX_TOKENS_PER_BATCH * 12) \div 10
MAX_CHARS_PER_TEXT == 6000
BATCH_SIZE == 50

\* the provider's embedding of one value
Vec(t) == [of |-> t]

RECURSIVE splitLinesFrom(_, _, _, _, _)
splitLinesFrom(lines, i, maxChars, cur, chunks) ==
    IF i > Len(lines)
    THEN IF Trim(cur) # <<>> THEN Append(chunks, Trim(cur)) ELSE chunks
    ELSE LET line == lines[i]
             exceedsLimit == StrLen(cur) + StrLen(line) + 1 > maxChars
         IN  IF exceedsLimit /\ StrLen(cur) > 0
             THEN splitLinesFrom(lines, i + 1, maxChars, line,
                                 Append(chunks, Trim(cur)))
             ELSE splitLinesFrom(lines, i + 1, maxChars,
                      Concat(cur, IF cur # <<>>
                                  THEN <<Run("nl", 1)>> \o line ELSE line),
                      chunks)

splitLinesIntoChunks(lines, maxChars) ==
    splitLinesFrom(lines, 1, maxChars, <<>>, <<>>)

RECURSIVE hardSplitFrom(_, _, _)
hardSplitFrom(chunk, i, maxChars) ==
    IF i >= StrLen(chunk) THEN <<>>
    ELSE <<Slice(chunk, i, i + maxChars)>>
             \o hardSplitFrom(chunk, i + maxChars, maxChars)

RECURSIVE splitOversizedFrom(_, _, _)
splitOversizedFrom(chunks, i, maxChars) ==
    IF i > Len(chunks) THEN <<>>
    ELSE (IF StrLen(chunks[i]) <= maxChars
          THEN <<chunks[i]>>
          ELSE hardSplitFrom(chunks[i], 0, maxChars))
         \o splitOversizedFrom(chunks, i + 1, maxChars)

\* a splitter without the hard split
keepLineChunks(chunks, maxChars) == chunks

splitOversizedChunks(chunks, maxChars) == splitOversizedFrom(chunks, 1, maxChars)

splitTextIntoChunks(text, maxChars) ==
    IF StrLen(text) <= maxChars THEN <<text>>
    ELSE splitOversizedChunks(splitLinesIntoChunks(SplitNl(text), maxChars),
                              maxChars)

partitionTexts(ts) ==
    [oversized |-> SelectSeq(ts, LAMBDA t : StrLen(t) > MAX_CHARS_PER_TEXT),
     normal    |-> SelectSeq(ts, LAMBDA t : ~(StrLen(t) > MAX_CHARS_PER_TEXT))]

\* one embedMany call: a vector per value, in the order of the values.
\* The operators below return the vectors (emb) and the calls they issued.
embedValues(values) ==
    [emb   |-> [i \in 1..Len(values) |-> Vec(values[i])],
     calls |-> <<values>>]

Join(r1, r2) == [emb |-> r1.emb \o r2.emb, calls |-> r1.calls \o r2.calls]

NoCalls == [emb |-> <<>>, calls |-> <<>>]

RECURSIVE embedSubBatches(_, _)
embedSubBatches(chunks, i) ==
    IF i >= Len(chunks) THEN NoCalls
    ELSE Join(embedValues(SubSeq(chunks, i + 1, Min(i + BATCH_SIZE, Len(chunks)))),
              embedSubBatches(chunks, i + BATCH_SIZE))

RECURSIVE embedOversizedFrom(_, _)
embedOversizedFrom(oversized, k) ==
    IF k > Len(oversized) THEN NoCalls
    ELSE Join(embedSubBatches(
                  splitTextIntoChunks(oversized[k], MAX_CHARS_PER_TEXT), 0),
              embedOversizedFrom(oversized, k + 1))

embedOversizedTexts(oversized) == embedOversizedFrom(oversized, 1)

RECURSIVE embedBatchesFrom(_, _, _, _, _)
embedBatchesFrom(ts, i, acc, currentBatch, currentBatchChars) ==
    IF i > Len(ts)
    THEN IF Len(currentBatch) > 0 THEN Join(acc, embedValues(currentBatch))
         ELSE acc
    ELSE LET text == ts[i]
             textChars == StrLen(text)
             exceedsBatchLimit ==
                 currentBatchChars + textChars > MAX_CHARS_PER_BATCH
             batchNearlyFull ==
                 currentBatchChars * 10 > MAX_CHARS_PER_BATCH * 9
             flushed == IF Len(currentBatch) > 0
                        THEN Join(acc, embedValues(currentBatch)) ELSE acc
         IN  IF textChars > MAX_CHARS_PER_TEXT
             THEN embedBatchesFrom(ts, i + 1,
                      Join(flushed, embedValues(<<text>>)), <<>>, 0)
             ELSE IF Len(currentBatch) > 0
                     /\ (exceedsBatchLimit \/ batchNearlyFull)
                  THEN embedBatchesFrom(ts, i + 1, flushed, <<text>>, textChars)
                  ELSE embedBatchesFrom(ts, i + 1, acc,
                           Append(currentBatch, text),
                           currentBatchChars + textChars)

embedTextsInBatches(ts) == embedBatchesFrom(ts, 1, NoCalls, <<>>, 0)

embedNormalTexts(ts, existing) ==
    IF SumLen(ts) <= MAX_CHARS_PER_BATCH
    THEN Join(existing, embedValues(ts))
    ELSE Join(existing, embedTextsInBatches(ts))

embedTexts(ts) ==
    IF Len(ts) = 0 THEN NoCalls
    ELSE LET p == partitionTexts(ts)
             oversizedEmbeddings == embedOversizedTexts(p.oversized)
         IN  IF Len(p.normal) = 0 THEN oversizedEmbeddings
             ELSE embedNormalTexts(p.normal, oversizedEmbeddings)

----------------------------------------------------------------------------
(* Inputs of the batcher                                                   *)

MaxTexts == 4

A(n) == <<Run("a", n)>>
B(n) == <<Run("b", n)>>

TextPool ==
    { B(600), B(3000), A(3500), A(6000),            \* at or below the ceiling
      B(6001), A(13000),                            \* oversized, no line break
      <<Run("a", 4000), Run("nl", 1), Run("b", 4000)>>,  \* oversized, two lines
      <<Run("sp", 7000)>>,                          \* oversized, blank
      A(306001) }                                   \* more than BATCH_SIZE pieces

RECURSIVE SeqsUpTo(_, _)
SeqsUpTo(S, n) ==
    IF n = 0 THEN {<<>>}
    ELSE LET shorter == SeqsUpTo(S, n - 1)
         IN  shorter \cup {Append(q, x) : q \in {r \in shorter : Len(r) = n - 1}, x \in S}

\* single texts for the splitter: up to MaxSplitRuns runs of letters, spaces
\* and line feeds
MaxSplitRuns == 3
SplitLens == {1, 2999, 6000, 20000}
SplitKinds == {"a", "b", "sp"}
SplitRuns ==
    {Run(k, n) : k \in SplitKinds, n \in SplitLens} \cup {Run("nl", 1), Run("nl", 2)}
SplitTexts ==
    {t \in SeqsUpTo(SplitRuns, MaxSplitRuns) : t # <<>> /\ Norm(t) = t}

----------------------------------------------------------------------------
(* Manifest diff (db/manifest)                                             *)
(* A Map / Record is a function on its set of keys; paths are numbered and *)
(* iteration visits them in ascending order.                               *)

RECURSIVE Ascending(_)
Ascending(S) ==
    IF S = {} THEN <<>>
    ELSE LET m == CHOOSE x \in S : \A y \in S : x <= y
         IN  <<m>> \o Ascending(S \ {m})

Has(m, k) == k \in DOMAIN m

diffManifestDropHas(currentFiles, manifestFiles) ==
    LET cur == Ascending(DOMAIN currentFiles)
    IN  [added     |-> SelectSeq(cur, LAMBDA p : ~Has(manifestFiles, p)),
         changed   |-> SelectSeq(cur, LAMBDA p :
                           Has(manifestFiles, p)
                           /\ manifestFiles[p].hash # currentFiles[p]),
         unchanged |-> SelectSeq(cur, LAMBDA p :
                           Has(manifestFiles, p)
                           /\ manifestFiles[p].hash = currentFiles[p]),
         removed   |-> Ascending(DOMAIN manifestFiles)]

diffManifest(currentFiles, manifestFiles) ==
    LET cur == Ascending(DOMAIN currentFiles)
        existing(p) == Has(manifestFiles, p)
    IN  [added     |-> SelectSeq(cur, LAMBDA p : ~existing(p)),
         changed   |-> SelectSeq(cur, LAMBDA p :
                           existing(p)
                           /\ manifestFiles[p].hash # currentFiles[p]),
         unchanged |-> SelectSeq(cur, LAMBDA p :
                           existing(p)
                           /\ ~(manifestFiles[p].hash # currentFiles[p])),
         removed   |-> SelectSeq(Ascending(DOMAIN manifestFiles),
                           LAMBDA p : ~Has(currentFiles, p))]

MaxDiffPaths == 3

DiffPaths == 1..MaxDiffPaths
DiffHashes == {"h1", "h2"}
DiffEntries == [hash : DiffHashes, chunkCount : {0, 2}, embeddedAt : {1}]

PartialFns(D, R) == UNION {[S -> R] : S \in SUBSET D}

----------------------------------------------------------------------------
(* Vector store adapter (db/qdrant)                                        *)

\* sha1-derived point id: equal exactly for equal chunk ids
stringToUuid(str) == [sha1 |-> str]

docPoint(c) ==
    [id |-> stringToUuid(c.id), originalId |-> c.id, path |-> c.path,
     section |-> c.section, content |-> c.content, vector |-> c.vector]

RECURSIVE upsertFrom(_, _, _)
upsertFrom(st, points, i) ==
    IF i > Len(points) THEN st
    ELSE upsertFrom({q \in st : q.id # points[i].id} \cup {points[i]},
                    points, i + 1)

\* client.upsert: a point replaces the stored point of the same id
upsertDocChunks(st, chunks) ==
    upsertFrom(st, [i \in 1..Len(chunks) |-> docPoint(chunks[i])], 1)

deleteChunksKeepAll(st, path) == st

\* a delete without the path filter
deleteEveryChunk(st, path) == {}

\* client.delete with the filter path == X
deleteDocChunks(st, path) == {q \in st : q.path # path}

----------------------------------------------------------------------------
(* MDX sections (mdx/sections, mdx/parser) and the DocChunker (doc-index)  *)
(* A heading is a sequence of one-character strings; a parsed document is  *)
(* the list of sections that parseMdx returns.                             *)

UPPER == <<"A","B","C","D","E","F","G","H","I","J","K","L","M",
           "N","O","P","Q","R","S","T","U","V","W","X","Y","Z">>
LOWER == <<"a","b","c","d","e","f","g","h","i","j","k","l","m",
           "n","o","p","q","r","s","t","u","v","w","x","y","z">>
DIGITS == <<"0","1","2","3","4","5","6","7","8","9">>

toLowerCase(c) ==
    IF \E i \in 1..Len(UPPER) : UPPER[i] = c
    THEN LOWER[CHOOSE i \in 1..Len(UPPER) : UPPER[i] = c]
    ELSE c

SpaceChars == {" ", "\t", "\n"}

IsSpaceChar(c) == c \in SpaceChars

\* [a-z0-9\s-]
IsIdChar(c) ==
    \/ \E i \in 1..Len(LOWER) : LOWER[i] = c
    \/ \E i \in 1..Len(DIGITS) : DIGITS[i] = c
    \/ IsSpaceChar(c)
    \/ c = "-"

RECURSIVE CollapseRuns(_, _, _)
\* every maximal run of characters of seps becomes one "-"
CollapseRuns(h, i, seps) ==
    IF i > Len(h) THEN <<>>
    ELSE IF h[i] \in seps
         THEN IF i > 1 /\ h[i - 1] \in seps
              THEN CollapseRuns(h, i + 1, seps)
              ELSE <<"-">> \o CollapseRuns(h, i + 1, seps)
         ELSE <<h[i]>> \o CollapseRuns(h, i + 1, seps)

StripEdgeDash(h) ==
    LET h1 == IF h # <<>> /\ h[1] = "-" THEN Tail(h) ELSE h
    IN  IF h1 # <<>> /\ h1[Len(h1)] = "-"
        THEN SubSeq(h1, 1, Len(h1) - 1) ELSE h1

generateSectionId(heading) ==
    LET lower == [i \in 1..Len(heading) |-> toLowerCase(heading[i])]
        kept == SelectSeq(lower, IsIdChar)
        dashed == CollapseRuns(kept, 1, SpaceChars)
        single == CollapseRuns(dashed, 1, {"-"})
    IN  StripEdgeDash(single)

RECURSIVE SplitParaFrom(_, _, _, _)
SplitParaFrom(s, i, cur, out) ==
    IF i > Len(s) THEN Append(out, cur)
    ELSE IF s[i][1] = "nl" /\ s[i][2] >= 2
         THEN SplitParaFrom(s, i + 1, <<>>, Append(out, cur))
         ELSE SplitParaFrom(s, i + 1, Append(cur, s[i]), out)

\* content.split(/\n\n+/)
SplitPara(s) == SplitParaFrom(s, 1, <<>>, <<>>)

SECTION_MAX_CHARS == 1000

RECURSIVE splitContentFrom(_, _, _, _, _)
splitContentFrom(paragraphs, i, maxChars, current, chunks) ==
    IF i > Len(paragraphs)
    THEN IF Trim(current) # <<>> THEN Append(chunks, Trim(current)) ELSE chunks
    ELSE LET paragraph == paragraphs[i]
         IN  IF StrLen(current) + StrLen(paragraph) > maxChars
                /\ StrLen(current) > 0
             THEN splitContentFrom(paragraphs, i + 1, maxChars, paragraph,
                                   Append(chunks, Trim(current)))
             ELSE splitContentFrom(paragraphs, i + 1, maxChars,
                      Concat(current, IF current # <<>>
                                      THEN <<Run("nl", 2)>> \o paragraph
                                      ELSE paragraph),
                      chunks)

splitContent(content, maxChars) ==
    IF StrLen(content) <= maxChars THEN <<content>>
    ELSE splitContentFrom(SplitPara(content), 1, maxChars, <<>>, <<>>)

\* decimal digits of i
RECURSIVE Decimal(_)
Decimal(i) ==
    IF i < 10 THEN <<DIGITS[i + 1]>>
    ELSE Decimal(i \div 10) \o <<DIGITS[(i % 10) + 1]>>

\* the suffix on every chunk, also the only one of its section
docChunkIdSuffixed(path, sectionId, n, i) ==
    <<path, "#">> \o sectionId \o <<"-">> \o Decimal(i)

\* `${doc.path}#${section.id}${sectionChunks.length > 1 ? `-${i}` : ""}`
docChunkId(path, sectionId, n, i) ==
    <<path, "#">> \o sectionId \o (IF n > 1 THEN <<"-">> \o Decimal(i) ELSE <<>>)

RECURSIVE createChunksFrom(_, _, _)
createChunksFrom(path, sections, k) ==
    IF k > Len(sections) THEN <<>>
    ELSE LET section == sections[k]
             sectionChunks == splitContent(section.content, SECTION_MAX_CHARS)
             here == IF Trim(section.content) = <<>> THEN <<>>
                     ELSE [i \in 1..Len(sectionChunks) |->
                              [content |-> sectionChunks[i],
                               id |-> docChunkId(path,
                                          generateSectionId(section.heading),
                                          Len(sectionChunks), i - 1),
                               path |-> path,
                               section |-> section.heading]]
         IN  here \o createChunksFrom(path, sections, k + 1)

\* DocIndex.createChunks(parseMdx(path, content))
createChunks(path, doc) == createChunksFrom(path, doc.sections, 1)

\* the chunks of indexFile with the vector embeddings[i] attached to chunk i
\* (undefined when embedTexts returned fewer vectors than chunks)
chunksWithVectors(chunks, embeddings) ==
    [i \in 1..Len(chunks) |->
        [content |-> chunks[i].content, id |-> chunks[i].id,
         path |-> chunks[i].path, section |-> chunks[i].section,
         vector |-> IF i <= Len(embeddings) THEN embeddings[i]
                    ELSE [of |-> "undefined"]]]

\* a short section, a section of one 7000-character paragraph, a blank one
DocLong ==
    [sections |-> <<
        [heading |-> <<"S","e","t","u","p">>, content |-> B(300)],
        [heading |-> <<"U","s","a","g","e">>, content |-> A(7000)],
        [heading |-> <<"T","o","d","o">>, content |-> <<Run("sp", 3)>>] >>]

\* two headings with the same section id and a section of two paragraphs
DocNotes ==
    [sections |-> <<
        [heading |-> <<"N","o","t","e","s">>, content |-> A(200)],
        [heading |-> <<"N","o","t","e","s","!">>, content |-> B(250)],
        [heading |-> <<"M","o","r","e">>,
         content |-> <<Run("b", 600), Run("nl", 2), Run("a", 600)>>] >>]

\* a document without heading
DocEmpty == [sections |-> <<>>]

DocContents == {DocLong, DocNotes, DocEmpty}

----------------------------------------------------------------------------
(* CodeChunker fallback (code-index)                                       *)

CHUNK_SIZE == 60
OVERLAP == 10
MIN_CHUNK_CHARS == 50

\* lines.join("\n")
RECURSIVE JoinNlFrom(_, _, _)
JoinNlFrom(lines, lo, hi) ==
    IF lo > hi THEN <<>>
    ELSE IF lo = hi THEN lines[lo]
    ELSE LET mid == (lo + hi) \div 2
         IN  JoinNlFrom(lines, lo, mid) \o <<Run("nl", 1)>>
                 \o JoinNlFrom(lines, mid + 1, hi)

JoinNl(lines) == Norm(JoinNlFrom(lines, 1, Len(lines)))

\* `${path}#chunk:${chunkIndex}`
lineChunkId(path, chunkIndex) ==
    <<path, "#", "c", "h", "u", "n", "k", ":">> \o Decimal(chunkIndex)

\* the while loop of chunkByLines, i the 0-based index of the first line
RECURSIVE chunkByLinesFrom(_, _, _, _)
chunkByLinesFrom(lines, path, i, chunkIndex) ==
    IF ~(i < Len(lines)) THEN <<>>
    ELSE LET endLine == Min(i + CHUNK_SIZE, Len(lines))
             chunkContent == Trim(JoinNl(SubSeq(lines, i + 1, endLine)))
         IN  IF StrLen(chunkContent) > MIN_CHUNK_CHARS
             THEN <<[content |-> chunkContent, endLine |-> endLine,
                     id |-> lineChunkId(path, chunkIndex), path |-> path,
                     startLine |-> i + 1, symbolType |-> "block"]>>
                  \o chunkByLinesFrom(lines, path, i + CHUNK_SIZE - OVERLAP,
                                      chunkIndex + 1)
             ELSE chunkByLinesFrom(lines, path, i + CHUNK_SIZE - OVERLAP,
                                   chunkIndex)

chunkByLines(content, path) == chunkByLinesFrom(SplitNl(content), path, 0, 0)

----------------------------------------------------------------------------
(* CodeChunker symbol extraction (code-index)                              *)
(* A source line is the sequence of its tokens, words and punctuation,     *)
(* without its indentation; the empty sequence is a blank line.  A file is *)
(* the sequence of its lines, content.split("\n").                         *)

Punct == {"{", "}", "(", ")", "=", "=>", ";", ",", "//", "/*"}
Numerals == {"0", "1"}

\* the i-th token, "" past the end of the line
Tok(t, i) == IF i >= 1 /\ i <= Len(t) THEN t[i] ELSE ""

\* \w+
IsWord(x) == x # "" /\ x \notin Punct
\* [a-zA-Z_]\w*
IsIdent(x) == IsWord(x) /\ x \notin Numerals

\* (?:kw\s+)? at token i: the index after it
Opt(t, i, kw) == IF Tok(t, i) = kw THEN i + 1 ELSE i

\* kw\s+(\w+) at token i: the captured name, "" when there is no match
Named(t, i, kw) ==
    IF Tok(t, i) = kw /\ IsWord(Tok(t, i + 1)) THEN Tok(t, i + 1) ELSE ""

\* (?:\([^)]*\)|[a-zA-Z_]\w*)\s*=> at token i
ArrowAt(t, i) ==
    IF Tok(t, i) = "("
    THEN \E j \in (i + 1)..Len(t) :
            /\ t[j] = ")"
            /\ \A k \in (i + 1)..(j - 1) : t[k] # ")"
            /\ Tok(t, j + 1) = "=>"
    ELSE IsIdent(Tok(t, i)) /\ Tok(t, i + 1) = "=>"

\* the patterns of TS_SYMBOL_PATTERNS on a trimmed line: the captured name or ""
matchArrowFunction(t) ==
    LET i == Opt(t, 1, "export")
    IN  IF Tok(t, i) \in {"const", "let"} /\ IsWord(Tok(t, i + 1))
           /\ Tok(t, i + 2) = "="
           /\ (ArrowAt(t, Opt(t, i + 3, "async")) \/ ArrowAt(t, i + 3))
        THEN Tok(t, i + 1) ELSE ""

matchClass(t) == Named(t, Opt(t, Opt(t, 1, "export"), "abstract"), "class")

matchConstExport(t) ==
    IF Tok(t, 1) = "export" /\ Tok(t, 2) \in {"const", "let"} /\ IsWord(Tok(t, 3))
    THEN Tok(t, 3) ELSE ""

matchFunction(t) == Named(t, Opt(t, Opt(t, 1, "export"), "async"), "function")

matchInterface(t) == Named(t, Opt(t, 1, "export"), "interface")

matchType(t) == Named(t, Opt(t, 1, "export"), "type")

\* the keys in the order function, class, interface, type alias, const/let
\* export, arrow function
StatedOrder ==
    <<"function", "class", "interface", "type", "constExport", "arrowFunction">>

\* Object.entries(TS_SYMBOL_PATTERNS): the keys in the order of the literal
PatternKeys ==
    <<"arrowFunction", "class", "constExport", "function", "interface", "type">>

matchPattern(key, t) ==
    CASE key = "arrowFunction" -> matchArrowFunction(t)
      [] key = "class"         -> matchClass(t)
      [] key = "constExport"   -> matchConstExport(t)
      [] key = "function"      -> matchFunction(t)
      [] key = "interface"     -> matchInterface(t)
      [] key = "type"          -> matchType(t)

\* the first key of the list keys whose pattern matches, "" when none does
RECURSIVE firstMatch(_, _, _)
firstMatch(keys, k, t) ==
    IF k > Len(keys) THEN ""
    ELSE IF matchPattern(keys[k], t) # "" THEN keys[k]
    ELSE firstMatch(keys, k + 1, t)

mapSymbolType(patternKey) ==
    CASE patternKey = "arrowFunction" -> "function"
      [] patternKey = "class"         -> "class"
      [] patternKey = "constExport"   -> "const"
      [] patternKey = "function"      -> "function"
      [] patternKey = "interface"     -> "interface"
      [] patternKey = "type"          -> "type"
      [] OTHER                        -> "block"

\* the number of tokens c in a line
CountTok(line, c) == Cardinality({k \in 1..Len(line) : line[k] = c})

\* trimmed.endsWith(";")
EndsWithSemi(line) == Tok(line, Len(line)) = ";"

\* trimmed.startsWith("//") || trimmed.startsWith("/*")
IsComment(line) == Tok(line, 1) \in {"//", "/*"}

SYMBOL_CAP == 50

\* the for loop of findSymbolEnd at the 0-based index i
RECURSIVE findSymbolEndFrom(_, _, _, _, _)
findSymbolEndFrom(lines, startIdx, i, braceCount, foundOpenBrace) ==
    IF ~(i < Len(lines)) THEN Min(startIdx + SYMBOL_CAP, Len(lines))
    ELSE LET line  == lines[i + 1]
             count == braceCount + CountTok(line, "{") - CountTok(line, "}")
             found == foundOpenBrace \/ CountTok(line, "{") > 0
         IN  IF found /\ count = 0 THEN i + 1
             ELSE IF ~found /\ i > startIdx /\ (EndsWithSemi(line) \/ line = <<>>)
                  THEN i + 1
             ELSE findSymbolEndFrom(lines, startIdx, i + 1, count, found)

\* no progress: the index it was called with
findSymbolEndStuck(lines, startIdx) == startIdx

findSymbolEnd(lines, startIdx) == findSymbolEndFrom(lines, startIdx, startIdx, 0, FALSE)

\* the cursor goes on at the next line, inside the symbol
cursorNextLine(i, endLine) == i + 1

\* i = endLine
cursorAfter(i, endLine) == endLine

\* one iteration of the while loop of extractTsSymbols; st is [i, symbols, seen],
\* seen the history of the declarations matched: [idx, key, name, endLine]
scanBody(lines, st) ==
    LET trimmed == lines[st.i + 1]
        key == firstMatch(PatternKeys, 1, trimmed)
    IN  IF trimmed = <<>> \/ IsComment(trimmed) \/ key = ""
        THEN [st EXCEPT !.i = st.i + 1]
        ELSE LET endLine == findSymbolEnd(lines, st.i)
                 sym == [content |-> SubSeq(lines, st.i + 1, endLine),
                         endLine |-> endLine,
                         name |-> matchPattern(key, trimmed),
                         startLine |-> st.i + 1,
                         type |-> mapSymbolType(key)]
             IN  [i |-> cursorAfter(st.i, endLine),
                  symbols |-> IF endLine - st.i >= 2 THEN Append(st.symbols, sym)
                              ELSE st.symbols,
                  seen |-> Append(st.seen, [idx |-> st.i, key |-> key,
                                            name |-> sym.name, type |-> sym.type,
                                            endLine |-> endLine])]

ScanStart == [i |-> 0, symbols |-> <<>>, seen |-> <<>>]

RECURSIVE scanLoop(_, _)
scanLoop(lines, st) ==
    IF ~(st.i < Len(lines)) THEN st.symbols ELSE scanLoop(lines, scanBody(lines, st))

extractTsSymbols(lines) == scanLoop(lines, ScanStart)

extractSymbols(lines, language) ==
    IF language \in {"typescript", "javascript"} THEN extractTsSymbols(lines)
    ELSE <<>>

\* the characters of a line: its tokens with one space between them
RECURSIVE lineWidth(_, _)
lineWidth(line, k) ==
    IF k > Len(line) THEN 0
    ELSE Len(line[k]) + (IF k > 1 THEN 1 ELSE 0) + lineWidth(line, k + 1)

lineText(line) == IF line = <<>> THEN <<>> ELSE <<Run("a", lineWidth(line, 1))>>

\* the content of a file, lines.join("\n")
fileText(lines) == JoinNl([k \in 1..Len(lines) |-> lineText(lines[k])])

\* `${prefixedPath}#${sym.name}:${sym.startLine}`
symbolChunkId(path, sym) == <<path, "#", sym.name, ":">> \o Decimal(sym.startLine)

\* the chunks embedFile creates for a file
codeFileChunks(path, lines, language) ==
    LET symbols == extractSymbols(lines, language)
    IN  IF Len(symbols) = 0 THEN chunkByLines(fileText(lines), path)
        ELSE [k \in 1..Len(symbols) |->
                 [content |-> symbols[k].content, endLine |-> symbols[k].endLine,
                  id |-> symbolChunkId(path, symbols[k]), path |-> path,
                  startLine |-> symbols[k].startLine,
                  symbol |-> symbols[k].name,
                  symbolType |-> symbols[k].type]]

----------------------------------------------------------------------------
(* Manifest (db/manifest)                                                  *)

MANIFEST_VERSION == 1

createEmptyManifest == [code |-> <<>>, docs |-> <<>>, version |-> MANIFEST_VERSION]

\* sha256: equal exactly for equal contents
hashContent(content) == [sha256 |-> content]

Put(f, k, v) == [x \in DOMAIN f \cup {k} |-> IF x = k THEN v ELSE f[x]]
Drop(f, k) == [x \in DOMAIN f \ {k} |-> f[x]]

updateManifestEntry(m, type, path, hash, chunkCount, at) ==
    [m EXCEPT ![type] =
        Put(m[type], path,
            [chunkCount |-> chunkCount, embeddedAt |-> at, hash |-> hash])]

removeManifestEntry(m, type, path) == [m EXCEPT ![type] = Drop(m[type], path)]

\* the manifest file: kind "missing" (no file), "unreadable" (readFile
\* rejects), "corrupt" (not JSON), "null" (the JSON null), "scalar" (a JSON
\* number, string or array), "noversion" (an object without version field),
\* or "json": the object m with a numeric version
NoFile == [kind |-> "missing", m |-> createEmptyManifest]
BadFile == [kind |-> "corrupt", m |-> createEmptyManifest]

saveManifestEmpty(m) == [kind |-> "json", m |-> createEmptyManifest]

saveManifest(m) == [kind |-> "json", m |-> m]

\* a loader that trusts every JSON object
loadManifestTrusting(d) ==
    IF d.kind = "json" THEN d.m ELSE createEmptyManifest

loadManifest(d) ==
    IF d.kind = "missing" THEN createEmptyManifest
    ELSE IF d.kind \in {"unreadable", "corrupt", "null"}
         THEN createEmptyManifest                \* the catch block
    ELSE IF d.kind \in {"scalar", "noversion"}
         THEN createEmptyManifest                \* undefined !== MANIFEST_VERSION
    ELSE IF d.m.version # MANIFEST_VERSION THEN createEmptyManifest
    ELSE d.m

loadManifestState(d, force) ==
    IF force THEN [code |-> <<>>, docs |-> <<>>, version |-> 1]
    ELSE loadManifest(d)

----------------------------------------------------------------------------
(* Query methods (rerank, vector-search, tools/docs/move)                  *)
(* A text is a string; an embedding is a vector of two integers of integer *)
(* length, a score is a cosine similarity in units of 1/25.                *)

Queries == {"install", "deploy"}
Snippets == {"s1", "s2", "s3"}

\* the embedding the provider answers for a text
providerEmbedding(text) ==
    CASE text = "install" -> <<1, 0>>
      [] text = "deploy"  -> <<3, 4>>
      [] text = "s1"      -> <<1, 0>>
      [] text = "s2"      -> <<0, 1>>
      [] text = "s3"      -> <<4, 3>>

Dot(a, b) == a[1] * b[1] + a[2] * b[2]
Magnitude(a) == CHOOSE n \in 0..5 : n * n = Dot(a, a)
cosineSimilarity(a, b) == (25 * Dot(a, b)) \div (Magnitude(a) * Magnitude(b))

\* s.slice(0, n) for n >= 0
sliceTo(s, n) == SubSeq(s, 1, Min(n, Len(s)))

\* r put into a list that is in descending order of score, after its equals
insertByScore(s, r) ==
    LET k == Cardinality({i \in 1..Len(s) : s[i].score >= r.score})
    IN  SubSeq(s, 1, k) \o <<r>> \o SubSeq(s, k + 1, Len(s))

\* comparator b.score - a.score only, elements stay in the order they have
keepOrder(s) == s

\* Array.prototype.sort((a, b) => b.score - a.score): stable, descending
RECURSIVE sortByScore(_)
sortByScore(s) ==
    IF s = <<>> THEN <<>>
    ELSE insertByScore(sortByScore(SubSeq(s, 1, Len(s) - 1)), s[Len(s)])

\* client.search: the limit nearest points of the collection, nearest first
searchDocs(points, queryVector, limit) ==
    sliceTo(sortByScore([i \in 1..Len(points) |->
                [path |-> points[i].path, content |-> points[i].content,
                 score |-> cosineSimilarity(queryVector,
                               providerEmbedding(points[i].content))]]),
            limit)

\* scored.sort(...).slice(0, topN) once every map callback has returned
rerankSettled(results, scores, topN) ==
    sliceTo(sortByScore([i \in 1..Len(results) |->
                [results[i] EXCEPT !.score = scores[i]]]), topN)

EmbedCall(who) == [kind |-> "embed", who |-> who]
SearchCall == [kind |-> "search", who |-> 0]

\* the calls in flight that go to the embedding provider or the vector store
RemoteCalls == {c \in inflight : c.kind \in {"embed", "search", "delete", "upsert"}}

----------------------------------------------------------------------------
(* Lexical search (text-search, code-index)                                *)
(* A run of the search tool is [exit, stdout]: exit 0 with the lines it     *)
(* printed, a non-zero exit code, or exit -1 when the tool did not start.   *)
(* A printed line is a match record [t, path, ln] (path "" when the record  *)
(* has none), another record, JSON null, something unparsable or empty.     *)

MatchLine(path, ln) == [t |-> "match", path |-> path, ln |-> ln]
OtherLine(t) == [t |-> t, path |-> "", ln |-> 0]

\* stdout.toString().trim().split("\n").filter(Boolean)
stdoutLines(run) == SelectSeq(run.stdout, LAMBDA l : l.t # "blank")

\* the ShellError of a non-zero exit says "Failed with exit code N"
messageHasExitCode(run) == run.exit > 0

textResult(path, ln) == [id |-> <<"text", path, ln>>, path |-> path, score |-> 1]

RECURSIVE parseFrom(_, _, _, _, _)
parseFrom(lines, limit, i, matches, seen) ==
    IF i > Len(lines) \/ Len(matches) >= limit THEN matches
    ELSE IF lines[i].t # "match" THEN parseFrom(lines, limit, i + 1, matches, seen)
    ELSE IF lines[i].path = "" \/ lines[i].path \in seen
         THEN parseFrom(lines, limit, i + 1, matches, seen)
    ELSE parseFrom(lines, limit, i + 1,
                   Append(matches, textResult(lines[i].path, lines[i].ln)),
                   seen \cup {lines[i].path})

parseRipgrepResults(lines, limit) == parseFrom(lines, limit, 1, <<>>, {})

\* textSearch with the run of the tool it awaits
textSearch(run, limit) ==
    IF run.exit = 0
    THEN [ok |-> TRUE, results |-> parseRipgrepResults(stdoutLines(run), limit)]
    ELSE IF messageHasExitCode(run) THEN [ok |-> TRUE, results |-> <<>>]
    ELSE [ok |-> FALSE]

\* the inner loop of CodeIndex.exactSearch over the lines of one codebase path
RECURSIVE codeLinesFrom(_, _, _, _)
codeLinesFrom(lines, limit, i, matches) ==
    IF i > Len(lines) THEN matches
    ELSE IF lines[i].t # "match" THEN codeLinesFrom(lines, limit, i + 1, matches)
    ELSE LET pushed == Append(matches, textResult(lines[i].path, lines[i].ln))
         IN  IF Len(pushed) >= limit THEN pushed
             ELSE codeLinesFrom(lines, limit, i + 1, pushed)

\* the outer loop over this.codebasePaths; runs[k] is the run of the tool on the k-th
RECURSIVE codeRootsFrom(_, _, _, _)
codeRootsFrom(runs, limit, k, matches) ==
    IF k > Len(runs) THEN matches
    ELSE LET after == IF runs[k].exit = 0
                      THEN codeLinesFrom(stdoutLines(runs[k]), limit, 1, matches)
                      ELSE matches
         IN  IF Len(after) >= limit THEN after
             ELSE codeRootsFrom(runs, limit, k + 1, after)

\* CodeIndex.exactSearch
codeExactSearch(runs, limit) ==
    [ok |-> TRUE,
     results |-> SubSeq(codeRootsFrom(runs, limit, 1, <<>>), 1,
                        IF Len(codeRootsFrom(runs, limit, 1, <<>>)) < limit
                        THEN Len(codeRootsFrom(runs, limit, 1, <<>>)) ELSE limit)]

----------------------------------------------------------------------------
(* Index command and sync coordinator (commands/index-docs, doc-index)     *)

MaxRuns == 2
SAVE_EVERY == 50

SyncPaths == {1, 2}

Contents == DocContents

\* scanFiles
scanFiles(files) == [p \in DOMAIN files |-> hashContent(files[p])]

EmptyDiff == [added |-> <<>>, changed |-> <<>>, removed |-> <<>>, unchanged |-> <<>>]

Idle == [pc |-> "idle", phase |-> "none", idx |-> 0]
NoFailure == [op |-> "none", path |-> 0]

\* the await reached from the head of the loop of `phase` at (1-based) index
\* i: removed, then changed, then added, then the command's final save
AtOrAfter(d, phase, i) ==
    LET ci == IF phase = "changed" THEN i ELSE 1
        ai == IF phase = "added" THEN i ELSE 1
    IN  IF phase = "removed" /\ i <= Len(d.removed)
        THEN [pc |-> "rm_delete", phase |-> "removed", idx |-> i]
        ELSE IF phase \in {"removed", "changed"} /\ ci <= Len(d.changed)
        THEN [pc |-> "ch_delete", phase |-> "changed", idx |-> ci]
        ELSE IF ai <= Len(d.added)
        THEN [pc |-> "ix_read", phase |-> "added", idx |-> ai]
        ELSE [pc |-> "final_save", phase |-> "save", idx |-> 0]

OpOf(pc) ==
    CASE pc \in {"rm_delete", "ch_delete", "ix_delete"} -> "delete"
      [] pc = "ix_read" -> "read"
      [] pc = "ix_embed" -> "embed"
      [] pc = "ix_upsert" -> "upsert"
      [] pc \in {"ad_save", "final_save"} -> "save"
      [] OTHER -> "none"

StoreOps == {"delete", "embed", "upsert"}

Running == pos.pc \notin {"idle", "done", "threw", "interrupted", "crashed"}

\* the path the loop of position q is at
PathAt(d, q) ==
    IF q.phase = "removed" THEN d.removed[q.idx]
    ELSE IF q.phase = "changed" THEN d.changed[q.idx]
    ELSE d.added[q.idx]

CurPath == PathAt(diff, pos)

\* the store / provider call issued on reaching position q
IssuedAt(d, q) ==
    IF OpOf(q.pc) \in StoreOps THEN {<<OpOf(q.pc), PathAt(d, q)>>} ELSE {}

\* indexFile: the chunks of the file at path, and the chunks with vectors
FileChunks(path) == createChunks(path, fs[path])
FileTexts(path) == [i \in 1..Len(FileChunks(path)) |-> FileChunks(path)[i].content]
FileChunksWithVectors(path) ==
    chunksWithVectors(FileChunks(path), embedTexts(FileTexts(path)).emb)

SyncIdle ==
    /\ corpus = "docs" /\ fs = <<>> /\ disk = NoFile /\ store = {}
    /\ manifest = createEmptyManifest /\ pos = Idle /\ call = "none"
    /\ diff = EmptyDiff /\ fileHashes = <<>> /\ now = 0 /\ forced = FALSE
    /\ loaded = createEmptyManifest /\ processed = {} /\ issued = {}
    /\ failure = NoFailure /\ indexed = {} /\ clean = FALSE
    /\ prevClean = FALSE /\ retry = 0

\* the pure-function harnesses are not in use
NotCalled == [done |-> FALSE]

EmbedIdle == texts = <<>> /\ embOut = NotCalled /\ embCalls = <<>>
DiffIdle == dCurrent = <<>> /\ dManifest = <<>> /\ dOut = NotCalled
NoInput == [fn |-> "none"]
CallIdle == input = NoInput /\ output = NotCalled
QueryIdle ==
    /\ collection = <<>> /\ qCall = NoInput /\ qPc = "idle" /\ inflight = {}
    /\ cands = <<>> /\ qVec = <<>> /\ scored = <<>> /\ mvPc = <<>>
    /\ embedLog = <<>> /\ qOut = NotCalled

\* a fresh installation: no manifest file, an empty collection
Init ==
    /\ corpus \in {"docs"}
    /\ fs \in PartialFns(SyncPaths, Contents)
    /\ disk = NoFile /\ store = {}
    /\ manifest = createEmptyManifest /\ pos = Idle /\ call = "none"
    /\ diff = EmptyDiff /\ fileHashes = <<>> /\ now = 0 /\ forced = FALSE
    /\ loaded = createEmptyManifest /\ processed = {} /\ issued = {}
    /\ failure = NoFailure /\ indexed = {} /\ clean = FALSE
    /\ prevClean = FALSE /\ retry = 0
    /\ EmbedIdle /\ DiffIdle /\ CallIdle /\ QueryIdle

\* move to position q, issuing the call awaited there
GoTo(q) ==
    /\ pos' = q
    /\ call' = "pending"
    /\ issued' = issued \cup IssuedAt(diff, q)

\* a file of the corpus directory is created, rewritten or deleted while no
\* index command runs
EnvEdit ==
    /\ pos.pc = "idle"
    /\ \E p \in SyncPaths :
          /\ \/ \E c \in Contents :
                   /\ IF p \in DOMAIN fs THEN fs[p] # c ELSE TRUE
                   /\ fs' = Put(fs, p, c)
             \/ p \in DOMAIN fs /\ fs' = Drop(fs, p)
          /\ retry' = IF p = retry THEN 0 ELSE retry
    /\ clean' = FALSE
    /\ UNCHANGED <<callVars, queryVars, embedVars, diffVars, corpus, disk, store,
                   manifest, pos, call, diff, fileHashes, now, forced, loaded,
                   processed, issued, failure, indexed, prevClean>>

\* indexCommand.handler up to the first await of syncFromDiff:
\* loadManifestState, scanFiles, diffDocFiles
StartRun ==
    /\ pos.pc = "idle"
    /\ now < MaxRuns
    /\ \E force \in BOOLEAN :
          LET m == loadManifestState(disk, force)
              files == scanFiles(fs)
              d == diffManifest(files, m[corpus])
              q == AtOrAfter(d, "removed", 1)
          IN  /\ manifest' = m /\ loaded' = m /\ forced' = force
              /\ fileHashes' = files /\ diff' = d
              /\ pos' = q /\ call' = "pending"
              /\ issued' = IssuedAt(d, q)
    /\ now' = now + 1
    /\ processed' = {} /\ failure' = NoFailure
    /\ prevClean' = clean
    /\ UNCHANGED <<callVars, queryVars, embedVars, diffVars, retry, corpus, fs, disk, store, indexed, clean>>

\* the vector store executes a delete-by-path
StoreDelete ==
    /\ call = "pending" /\ OpOf(pos.pc) = "delete"
    /\ store' = deleteDocChunks(store, CurPath)
    /\ call' = "ok"
    /\ UNCHANGED <<callVars, queryVars, embedVars, diffVars, retry, corpus, fs, disk, manifest, pos, diff, fileHashes, now,
                   forced, loaded, processed, issued, failure, indexed, clean,
                   prevClean>>

\* Bun.file(path).text() resolves
FileRead ==
    /\ call = "pending" /\ OpOf(pos.pc) = "read"
    /\ call' = "ok"
    /\ UNCHANGED <<callVars, queryVars, embedVars, diffVars, retry, corpus, fs, disk, store, manifest, pos, diff, fileHashes,
                   now, forced, loaded, processed, issued, failure, indexed,
                   clean, prevClean>>

\* the provider answers every embedMany call of embedTexts
ProviderEmbed ==
    /\ call = "pending" /\ OpOf(pos.pc) = "embed"
    /\ call' = "ok"
    /\ UNCHANGED <<callVars, queryVars, embedVars, diffVars, retry, corpus, fs, disk, store, manifest, pos, diff, fileHashes,
                   now, forced, loaded, processed, issued, failure, indexed,
                   clean, prevClean>>

Defined(points) == \A i \in 1..Len(points) : points[i].vector # [of |-> "undefined"]

\* the vector store executes the upsert (it rejects a point without vector)
StoreUpsert ==
    /\ call = "pending" /\ OpOf(pos.pc) = "upsert"
    /\ Defined(FileChunksWithVectors(CurPath))
    /\ store' = upsertDocChunks(store, FileChunksWithVectors(CurPath))
    /\ indexed' = indexed \cup {<<CurPath, hashContent(fs[CurPath])>>}
    /\ call' = "ok"
    /\ UNCHANGED <<callVars, queryVars, embedVars, diffVars, retry, corpus, fs, disk, manifest, pos, diff, fileHashes, now,
                   forced, loaded, processed, issued, failure, clean,
                   prevClean>>

\* writeFile of saveManifest completes
DiskWrite ==
    /\ call = "pending" /\ OpOf(pos.pc) = "save"
    /\ disk' = saveManifest(manifest)
    /\ call' = "ok"
    /\ UNCHANGED <<callVars, queryVars, embedVars, diffVars, retry, corpus, fs, store, manifest, pos, diff, fileHashes, now,
                   forced, loaded, processed, issued, failure, indexed, clean,
                   prevClean>>

\* the awaited call rejects
CallFails ==
    /\ call = "pending" /\ Running
    /\ call' = "err"
    /\ failure' = IF pos.pc = "ad_save" THEN failure
                  ELSE [op |-> OpOf(pos.pc),
                        path |-> IF pos.pc = "final_save" THEN 0 ELSE CurPath]
    /\ UNCHANGED <<callVars, queryVars, embedVars, diffVars, retry, corpus, fs, disk, store, manifest, pos, diff, fileHashes,
                   now, forced, loaded, processed, issued, indexed, clean,
                   prevClean>>

\* the loop body of the current file is finished: indexFile returned n
FinishFile(n) ==
    /\ manifest' = updateManifestEntry(manifest, corpus, CurPath,
                                       fileHashes[CurPath], n, now)
    /\ processed' = processed \cup {CurPath}
    /\ IF pos.phase = "added"
          /\ ((pos.idx - 1) % SAVE_EVERY = 0 \/ pos.idx - 1 = Len(diff.added) - 1)
       THEN GoTo([pc |-> "ad_save", phase |-> "added", idx |-> pos.idx])
       ELSE GoTo(AtOrAfter(diff, pos.phase, pos.idx + 1))

\* removed phase: the delete resolved, the manifest forgets the path
ResumeRemoved ==
    /\ pos.pc = "rm_delete" /\ call = "ok"
    /\ manifest' = removeManifestEntry(manifest, corpus, CurPath)
    /\ processed' = processed \cup {CurPath}
    /\ GoTo(AtOrAfter(diff, "removed", pos.idx + 1))
    /\ UNCHANGED <<callVars, queryVars, embedVars, diffVars, retry, corpus, fs, disk, store, diff, fileHashes, now, forced,
                   loaded, failure, indexed, clean, prevClean>>

\* changed phase: the delete resolved, embedFile starts
ResumeChangedDelete ==
    /\ pos.pc = "ch_delete" /\ call = "ok"
    /\ GoTo([pc |-> "ix_read", phase |-> "changed", idx |-> pos.idx])
    /\ UNCHANGED <<callVars, queryVars, embedVars, diffVars, retry, corpus, fs, disk, store, manifest, diff, fileHashes, now,
                   forced, loaded, processed, failure, indexed, clean,
                   prevClean>>

\* a coordinator that records the file before it is embedded
ResumeReadEager ==
    /\ pos.pc = "ix_read" /\ call = "ok"
    /\ manifest' = updateManifestEntry(manifest, corpus, CurPath,
                                       fileHashes[CurPath], 0, now)
    /\ GoTo([pos EXCEPT !.pc = "ix_delete"])
    /\ UNCHANGED <<callVars, queryVars, embedVars, diffVars, retry, corpus, fs, disk, store, diff,
                   fileHashes, now, forced, loaded, processed, failure,
                   indexed, clean, prevClean>>

\* indexFile: the content is read and parsed, the old chunks are deleted
ResumeRead ==
    /\ pos.pc = "ix_read" /\ call = "ok"
    /\ GoTo([pos EXCEPT !.pc = "ix_delete"])
    /\ UNCHANGED <<callVars, queryVars, embedVars, diffVars, retry, corpus, fs, disk, store, manifest, diff, fileHashes, now,
                   forced, loaded, processed, failure, indexed, clean,
                   prevClean>>

\* indexFile: createChunks; no chunk returns 0, else embedTexts is awaited
ResumeIndexDelete ==
    /\ pos.pc = "ix_delete" /\ call = "ok"
    /\ IF Len(FileChunks(CurPath)) = 0
       THEN /\ FinishFile(0)
            /\ indexed' = indexed \cup {<<CurPath, hashContent(fs[CurPath])>>}
       ELSE /\ GoTo([pos EXCEPT !.pc = "ix_embed"])
            /\ UNCHANGED <<manifest, processed, indexed>>
    /\ UNCHANGED <<callVars, queryVars, embedVars, diffVars, retry, corpus, fs, disk, store, diff, fileHashes, now, forced,
                   loaded, failure, clean, prevClean>>

\* indexFile: the vectors are attached and the upsert is awaited
ResumeEmbed ==
    /\ pos.pc = "ix_embed" /\ call = "ok"
    /\ GoTo([pos EXCEPT !.pc = "ix_upsert"])
    /\ UNCHANGED <<callVars, queryVars, embedVars, diffVars, retry, corpus, fs, disk, store, manifest, diff, fileHashes, now,
                   forced, loaded, processed, failure, indexed, clean,
                   prevClean>>

\* indexFile returns chunks.length, updateManifestEntry follows
ResumeUpsert ==
    /\ pos.pc = "ix_upsert" /\ call = "ok"
    /\ FinishFile(Len(FileChunks(CurPath)))
    /\ UNCHANGED <<callVars, queryVars, embedVars, diffVars, retry, corpus, fs, disk, store, diff, fileHashes, now, forced,
                   loaded, failure, indexed, clean, prevClean>>

\* added phase: the periodic save settled; a rejection is ignored
ResumePeriodicSave ==
    /\ pos.pc = "ad_save" /\ call \in {"ok", "err"}
    /\ GoTo(AtOrAfter(diff, "added", pos.idx + 1))
    /\ UNCHANGED <<callVars, queryVars, embedVars, diffVars, retry, corpus, fs, disk, store, manifest, diff, fileHashes, now,
                   forced, loaded, processed, failure, indexed, clean,
                   prevClean>>

\* the final saveManifest of the command resolved
ResumeFinalSave ==
    /\ pos.pc = "final_save" /\ call = "ok"
    /\ pos' = [pos EXCEPT !.pc = "done"]
    /\ call' = "none"
    /\ clean' = TRUE
    /\ UNCHANGED <<callVars, queryVars, embedVars, diffVars, retry, corpus, fs, disk, store, manifest, diff, fileHashes, now,
                   forced, loaded, processed, issued, failure, indexed,
                   prevClean>>

\* a rejected await that nothing catches: syncFromDiff and the command reject
Throw ==
    /\ Running /\ call = "err" /\ pos.pc # "ad_save"
    /\ pos' = [pos EXCEPT !.pc = "threw"]
    /\ call' = "none"
    /\ clean' = FALSE
    /\ UNCHANGED <<callVars, queryVars, embedVars, diffVars, retry, corpus, fs, disk, store, manifest, diff, fileHashes, now,
                   forced, loaded, processed, issued, failure, indexed,
                   prevClean>>

\* an exit handler that does not save
exitWithoutSave(d, m, saved) == d

\* saveManifestOnExit: the disk after the handler's best-effort save
saveManifestOnExit(d, m, saved) == IF saved THEN saveManifest(m) ELSE d

\* SIGINT / SIGTERM at any await of the run
Interrupt ==
    /\ Running
    /\ \E saved \in BOOLEAN :
          /\ disk' = saveManifestOnExit(disk, manifest, saved)
          /\ call' = IF saved THEN "ok" ELSE "err"
    /\ pos' = [pos EXCEPT !.pc = "interrupted"]
    /\ clean' = FALSE
    /\ UNCHANGED <<callVars, queryVars, embedVars, diffVars, retry, corpus, fs, store, manifest, diff, fileHashes, now, forced,
                   loaded, processed, issued, failure, indexed, prevClean>>

\* the process dies without running a handler; a manifest write in flight
\* may leave a truncated file
Crash ==
    /\ Running
    /\ \/ disk' = disk
       \/ call = "pending" /\ OpOf(pos.pc) = "save" /\ disk' = BadFile
    /\ pos' = [pos EXCEPT !.pc = "crashed"]
    /\ call' = "none"
    /\ clean' = FALSE
    /\ UNCHANGED <<callVars, queryVars, embedVars, diffVars, retry, corpus, fs, store, manifest, diff, fileHashes, now, forced,
                   loaded, processed, issued, failure, indexed, prevClean>>

\* the process is gone: only the files, the manifest file and the store stay
ProcessExit ==
    /\ pos.pc \in {"done", "threw", "interrupted", "crashed"}
    /\ manifest' = createEmptyManifest /\ pos' = Idle /\ call' = "none"
    /\ diff' = EmptyDiff /\ fileHashes' = <<>> /\ forced' = FALSE
    /\ loaded' = createEmptyManifest /\ processed' = {} /\ issued' = {}
    /\ failure' = NoFailure /\ prevClean' = FALSE
    /\ retry' = IF failure.op \in {"embed", "upsert"} THEN failure.path ELSE 0
    /\ UNCHANGED <<callVars, queryVars, embedVars, diffVars, corpus, fs, disk, store,
                   now, indexed, clean>>

Next ==
    \/ EnvEdit \/ StartRun
    \/ StoreDelete \/ FileRead \/ ProviderEmbed \/ StoreUpsert \/ DiskWrite
    \/ CallFails
    \/ ResumeRemoved \/ ResumeChangedDelete \/ ResumeRead \/ ResumeIndexDelete
    \/ ResumeEmbed \/ ResumeUpsert \/ ResumePeriodicSave \/ ResumeFinalSave
    \/ Throw \/ Interrupt \/ Crash \/ ProcessExit

Spec == Init /\ [][Next]_vars

\* the manifest and the collection after a complete index run over files
IndexedManifest(files) ==
    [code |-> <<>>,
     docs |-> [p \in DOMAIN files |->
                  [chunkCount |-> Len(createChunks(p, files[p])),
                   embeddedAt |-> 0,
                   hash |-> hashContent(files[p])]],
     version |-> MANIFEST_VERSION]

IndexedStore(files) ==
    UNION {upsertDocChunks({},
               chunksWithVectors(createChunks(p, files[p]),
                   embedTexts([i \in 1..Len(createChunks(p, files[p])) |->
                                  createChunks(p, files[p])[i].content]).emb)) :
           p \in DOMAIN files}

\* an installation whose docs were indexed by a complete run
IndexedInit ==
    /\ corpus = "docs"
    /\ fs \in [SyncPaths -> {DocLong, DocNotes}]
    /\ disk = saveManifest(IndexedManifest(fs))
    /\ store = IndexedStore(fs)
    /\ indexed = {<<p, hashContent(fs[p])>> : p \in DOMAIN fs}
    /\ clean = TRUE
    /\ manifest = createEmptyManifest /\ pos = Idle /\ call = "none"
    /\ diff = EmptyDiff /\ fileHashes = <<>> /\ now = 0 /\ forced = FALSE
    /\ loaded = createEmptyManifest /\ processed = {} /\ issued = {}
    /\ failure = NoFailure /\ prevClean = FALSE /\ retry = 0
    /\ EmbedIdle /\ DiffIdle /\ CallIdle /\ QueryIdle

SpecIndexed == IndexedInit /\ [][Next]_vars

----------------------------------------------------------------------------
(* Specifications of the pure functions                                    *)

EmbedInit ==
    /\ texts \in SeqsUpTo(TextPool, MaxTexts)
    /\ embOut = NotCalled
    /\ embCalls = <<>>
    /\ DiffIdle
    /\ CallIdle /\ QueryIdle
    /\ SyncIdle

CallEmbedTexts ==
    /\ ~embOut.done
    /\ LET r == embedTexts(texts)
       IN  embOut' = [done |-> TRUE, emb |-> r.emb] /\ embCalls' = r.calls
    /\ UNCHANGED <<texts, diffVars, callVars, queryVars, syncVars>>

EmbedNext == CallEmbedTexts

SpecEmbed == EmbedInit /\ [][EmbedNext]_vars

\* embedTexts called with one text
SplitInit ==
    /\ texts \in {<<t>> : t \in SplitTexts}
    /\ embOut = NotCalled
    /\ embCalls = <<>>
    /\ DiffIdle
    /\ CallIdle /\ QueryIdle
    /\ SyncIdle

SpecSplit == SplitInit /\ [][EmbedNext]_vars

\* section contents: blank, short, at and above the section limit, two
\* paragraphs, a long paragraph after a break, two long lines, one long line
SectionContents ==
    { <<>>, <<Run("sp", 3)>>, A(200), B(1000), A(1001),
      <<Run("b", 600), Run("nl", 2), Run("a", 600)>>,
      <<Run("a", 300), Run("nl", 2), Run("b", 7000)>>,
      <<Run("a", 3000), Run("nl", 1), Run("b", 4001)>>,
      A(7000) }

Headings ==
    { <<"S","e","t","u","p">>, <<"N","o","t","e","s">>,
      <<"N","o","t","e","s","!">>, <<"A","P","I"," ","v","2">> }

MaxSections == 2
SectionPool == [heading : Headings, content : SectionContents]
ChunkDocs == {[sections |-> q] : q \in SeqsUpTo(SectionPool, MaxSections)}

\* n lines of len letters each
LinesOf(n, len) ==
    IF len = 0 THEN (IF n <= 1 THEN <<>> ELSE <<Run("nl", n - 1)>>)
    ELSE [i \in 1..(IF n = 0 THEN 0 ELSE 2 * n - 1) |->
             IF i % 2 = 1 THEN Run("a", len) ELSE Run("nl", 1)]

MaxLineWindows == 2
LineCounts ==
    {0, 1, 10, 59} \cup
    UNION {{50 * w, 50 * w + 1, 50 * w + 10, 50 * w + 11} : w \in 1..MaxLineWindows}
LineLens == {0, 1, 40, 50, 120}
CodeContents == {LinesOf(n, len) : n \in LineCounts, len \in LineLens}

\* contents of up to MaxParas paragraphs (letters, or three spaces) with
\* two or three line feeds between them
MaxParas == 3
ParaLens == {1, 500, 501, 1200}
Paragraphs == {<<Run(k, n)>> : k \in {"a", "b"}, n \in ParaLens} \cup {<<Run("sp", 3)>>}
ParaBreaks == {<<Run("nl", 2)>>, <<Run("nl", 3)>>}

RECURSIVE ParaContents(_)
ParaContents(n) ==
    IF n = 1 THEN Paragraphs
    ELSE {c \o b \o q : c \in ParaContents(n - 1), b \in ParaBreaks, q \in Paragraphs}

SplitContents == UNION {ParaContents(n) : n \in 1..MaxParas}

ChunkerInit ==
    /\ input \in {[fn |-> "createChunks", path |-> 1, doc |-> d] : d \in ChunkDocs}
              \cup {[fn |-> "chunkByLines", path |-> 1, content |-> c] :
                        c \in CodeContents}
              \cup {[fn |-> "splitContent", content |-> c,
                     maxChars |-> SECTION_MAX_CHARS] : c \in SplitContents}
    /\ output = NotCalled
    /\ EmbedIdle /\ DiffIdle /\ QueryIdle /\ SyncIdle

CallCreateChunks ==
    /\ input.fn = "createChunks" /\ ~output.done
    /\ output' = [done |-> TRUE, chunks |-> createChunks(input.path, input.doc)]
    /\ UNCHANGED <<input, queryVars, embedVars, diffVars, syncVars>>

CallChunkByLines ==
    /\ input.fn = "chunkByLines" /\ ~output.done
    /\ output' = [done |-> TRUE, chunks |-> chunkByLines(input.content, input.path)]
    /\ UNCHANGED <<input, queryVars, embedVars, diffVars, syncVars>>

CallSplitContent ==
    /\ input.fn = "splitContent" /\ ~output.done
    /\ output' = [done |-> TRUE, chunks |-> splitContent(input.content, input.maxChars)]
    /\ UNCHANGED <<input, queryVars, embedVars, diffVars, syncVars>>

ChunkerNext == CallCreateChunks \/ CallChunkByLines \/ CallSplitContent

SpecChunker == ChunkerInit /\ [][ChunkerNext]_vars

\* manifest files and scan results for loadManifest
MaxLoadPaths == 2
LoadPaths == 1..MaxLoadPaths
FileVersions == {0, 1, 2}
ManifestFiles ==
    {[kind |-> k, m |-> createEmptyManifest] :
        k \in {"missing", "unreadable", "corrupt", "null", "scalar", "noversion"}}
    \cup {[kind |-> "json", m |-> [code |-> <<>>, docs |-> e, version |-> v]] :
            e \in PartialFns(LoadPaths, DiffEntries), v \in FileVersions}

LoadInit ==
    /\ input \in [fn : {"loadManifest"}, file : ManifestFiles,
                   scan : PartialFns(LoadPaths, DiffHashes)]
    /\ output = NotCalled
    /\ EmbedIdle /\ DiffIdle /\ QueryIdle /\ SyncIdle

\* loadManifest, then the diff of a scan against the docs entries loaded
CallLoadManifest ==
    /\ input.fn = "loadManifest" /\ ~output.done
    /\ output' = [done |-> TRUE,
                  manifest |-> loadManifest(input.file),
                  diff |-> diffManifest(input.scan, loadManifest(input.file).docs)]
    /\ UNCHANGED <<input, queryVars, embedVars, diffVars, syncVars>>

LoadNext == CallLoadManifest

SpecLoad == LoadInit /\ [][LoadNext]_vars

DiffInit ==
    /\ dCurrent \in PartialFns(DiffPaths, DiffHashes)
    /\ dManifest \in PartialFns(DiffPaths, DiffEntries)
    /\ dOut = NotCalled
    /\ EmbedIdle
    /\ CallIdle /\ QueryIdle
    /\ SyncIdle

CallDiffManifest ==
    /\ ~dOut.done
    /\ dOut' = [done |-> TRUE, diff |-> diffManifest(dCurrent, dManifest)]
    /\ UNCHANGED <<dCurrent, dManifest, embedVars, callVars, queryVars, syncVars>>

DiffNext == CallDiffManifest

SpecDiff == DiffInit /\ [][DiffNext]_vars

----------------------------------------------------------------------------
(* Specification of the query methods of one coordinator                   *)

MaxPoints == 4
MaxLimit == 2
Limits == 1..MaxLimit
PriorScores == {0, 7}

Collections ==
    UNION {{[i \in 1..n |-> [path |-> i, content |-> c[i]]] :
                c \in [1..n -> Snippets]} : n \in 0..MaxPoints}

\* search results that carry the score sc
WithScore(points, sc) ==
    [i \in 1..Len(points) |->
        [path |-> points[i].path, content |-> points[i].content, score |-> sc]]

Returned(results) == [done |-> TRUE, ok |-> TRUE, results |-> results]
Rejected == [done |-> TRUE, ok |-> FALSE]

QueryInit ==
    /\ collection \in Collections
    /\ qCall = NoInput /\ qPc = "idle" /\ inflight = {}
    /\ cands = <<>> /\ qVec = <<>> /\ scored = <<>> /\ mvPc = <<>>
    /\ embedLog = <<>> /\ qOut = NotCalled
    /\ EmbedIdle /\ DiffIdle /\ CallIdle /\ SyncIdle

\* rerankResults up to its first await
rerankResults(query, results, topN) ==
    /\ cands' = results
    /\ qVec' = <<>>
    /\ scored' = <<>>
    /\ IF Len(results) = 0 THEN
           /\ qPc' = "returned" /\ qOut' = Returned(<<>>) /\ inflight' = {}
           /\ UNCHANGED embedLog
       ELSE IF Len(results) <= topN THEN
           /\ qPc' = "returned" /\ qOut' = Returned(results) /\ inflight' = {}
           /\ UNCHANGED embedLog
       ELSE
           /\ qPc' = "rr_query" /\ inflight' = {EmbedCall(0)}
           /\ embedLog' = Append(embedLog,
                              [by |-> "rerank", who |-> 0, text |-> query])
           /\ UNCHANGED qOut

\* DocIndex.rerank(query, results, limit)
CallRerank ==
    \E query \in Queries, limit \in Limits, sc \in PriorScores :
        /\ qPc = "idle"
        /\ qCall' = [fn |-> "rerank", query |-> query, limit |-> limit]
        /\ rerankResults(query, WithScore(collection, sc), limit)
        /\ UNCHANGED <<collection, mvPc, embedVars, diffVars, callVars, syncVars>>

\* DocIndex.semanticSearch / hybridSearch up to the await of the query embedding
CallSearch ==
    \E fn \in {"semanticSearch", "hybridSearch"}, query \in Queries,
       limit \in Limits :
        /\ qPc = "idle"
        /\ qCall' = [fn |-> fn, query |-> query, limit |-> limit]
        /\ qPc' = "vs_embed"
        /\ inflight' = {EmbedCall(0)}
        /\ embedLog' = Append(embedLog,
                           [by |-> "vectorSearch", who |-> 0, text |-> query])
        /\ UNCHANGED <<collection, cands, qVec, scored, mvPc, qOut,
                       embedVars, diffVars, callVars, syncVars>>

\* vectorSearch: the query embedding arrives, searchDocs is called
VectorSearchEmbedded ==
    /\ qPc = "vs_embed" /\ EmbedCall(0) \in inflight
    /\ qVec' = providerEmbedding(qCall.query)
    /\ inflight' = {SearchCall}
    /\ qPc' = "vs_search"
    /\ UNCHANGED <<collection, qCall, cands, scored, mvPc, embedLog, qOut,
                   embedVars, diffVars, callVars, syncVars>>

\* semanticSearch: the store answers
SemanticSearchReturns ==
    /\ qPc = "vs_search" /\ SearchCall \in inflight
    /\ qCall.fn = "semanticSearch"
    /\ qPc' = "returned"
    /\ inflight' = {}
    /\ qOut' = Returned(searchDocs(collection, qVec, qCall.limit))
    /\ UNCHANGED <<collection, qCall, cands, qVec, scored, mvPc, embedLog,
                   embedVars, diffVars, callVars, syncVars>>

\* hybridSearch: the store answers for limit * 2, rerankResults is called
HybridSearchReranks ==
    /\ qPc = "vs_search" /\ SearchCall \in inflight
    /\ qCall.fn = "hybridSearch"
    /\ rerankResults(qCall.query,
                     searchDocs(collection, qVec, qCall.limit * 2), qCall.limit)
    /\ UNCHANGED <<collection, qCall, mvPc, embedVars, diffVars, callVars, syncVars>>

\* rerankResults: the query embedding arrives; results.map starts every
\* callback, each runs to its own await of embedText
RerankQueryEmbedded ==
    /\ qPc = "rr_query" /\ EmbedCall(0) \in inflight
    /\ qVec' = providerEmbedding(qCall.query)
    /\ inflight' = {EmbedCall(i) : i \in 1..Len(cands)}
    /\ embedLog' = embedLog \o
            [i \in 1..Len(cands) |->
                [by |-> "rerank", who |-> i, text |-> cands[i].content]]
    /\ qPc' = "rr_cands"
    /\ UNCHANGED <<collection, qCall, cands, scored, mvPc, qOut,
                   embedVars, diffVars, callVars, syncVars>>

\* rerankResults: one content embedding arrives; after the last one
\* Promise.all resolves and the list is sorted and cut
RerankCandidateEmbedded ==
    \E c \in inflight :
        /\ qPc = "rr_cands" /\ c.kind = "embed"
        /\ LET sim == cosineSimilarity(qVec, providerEmbedding(cands[c.who].content))
               sc  == [i \in DOMAIN scored \cup {c.who} |->
                          IF i = c.who THEN sim ELSE scored[i]]
           IN  /\ scored' = sc
               /\ inflight' = inflight \ {c}
               /\ IF inflight = {c}
                  THEN /\ qPc' = "returned"
                       /\ qOut' = Returned(rerankSettled(cands, sc, qCall.limit))
                  ELSE UNCHANGED <<qPc, qOut>>
        /\ UNCHANGED <<collection, qCall, cands, qVec, mvPc, embedLog,
                       embedVars, diffVars, callVars, syncVars>>

\* moveContent after both files are written: Promise.all of two indexFile
\* calls on the same DocIndex, each at its first await
CallMoveContent ==
    /\ qPc = "idle"
    /\ qCall' = [fn |-> "moveContent"]
    /\ qPc' = "mv_index"
    /\ mvPc' = [i \in 1..2 |-> "read"]
    /\ inflight' = {[kind |-> "read", who |-> i] : i \in 1..2}
    /\ UNCHANGED <<collection, cands, qVec, scored, embedLog, qOut,
                   embedVars, diffVars, callVars, syncVars>>

\* the await after pc in indexFile; a file without chunks returns after the delete
NextAwait(pc, noChunks) ==
    CASE pc = "read"   -> "delete"
      [] pc = "delete" -> IF noChunks THEN "done" ELSE "embed"
      [] pc = "embed"  -> "upsert"
      [] pc = "upsert" -> "done"

\* indexFile of one of the two files: its awaited call settles, it issues the next
IndexFileResumes ==
    \E i \in 1..2, noChunks \in BOOLEAN :
        /\ qPc \in {"mv_index", "rejected"} /\ mvPc # <<>>
        /\ [kind |-> mvPc[i], who |-> i] \in inflight
        /\ LET next == NextAwait(mvPc[i], noChunks)
               pcs  == [mvPc EXCEPT ![i] = next]
           IN  /\ mvPc' = pcs
               /\ inflight' = (inflight \ {[kind |-> mvPc[i], who |-> i]}) \cup
                      (IF next = "done" THEN {} ELSE {[kind |-> next, who |-> i]})
               /\ IF qPc = "mv_index" /\ \A j \in 1..2 : pcs[j] = "done"
                  THEN qPc' = "returned" /\ qOut' = Returned(<<>>)
                  ELSE UNCHANGED <<qPc, qOut>>
        /\ UNCHANGED <<collection, qCall, cands, qVec, scored, embedLog,
                       embedVars, diffVars, callVars, syncVars>>

\* an awaited call rejects: the method rejects (moveContent reports the error)
QueryCallRejects ==
    \E c \in inflight :
        /\ qPc \in {"vs_embed", "vs_search", "rr_query", "rr_cands", "mv_index"}
        /\ qPc' = "rejected"
        /\ qOut' = Rejected
        /\ inflight' = inflight \ {c}
        /\ mvPc' = IF mvPc = <<>> THEN mvPc ELSE [mvPc EXCEPT ![c.who] = "failed"]
        /\ UNCHANGED <<collection, qCall, cands, qVec, scored, embedLog,
                       embedVars, diffVars, callVars, syncVars>>

\* an embedText call of a rejected rerankResults settles, nobody waits for it
LateEmbedSettles ==
    \E c \in inflight :
        /\ qPc = "rejected" /\ c.kind = "embed" /\ mvPc = <<>>
        /\ inflight' = inflight \ {c}
        /\ UNCHANGED <<collection, qCall, qPc, cands, qVec, scored, mvPc,
                       embedLog, qOut, embedVars, diffVars, callVars, syncVars>>

QueryNext ==
    \/ CallRerank
    \/ CallSearch
    \/ VectorSearchEmbedded
    \/ SemanticSearchReturns
    \/ HybridSearchReranks
    \/ RerankQueryEmbedded
    \/ RerankCandidateEmbedded
    \/ CallMoveContent
    \/ IndexFileResumes
    \/ QueryCallRejects
    \/ LateEmbedSettles

SpecQuery == QueryInit /\ [][QueryNext]_vars

----------------------------------------------------------------------------
(* Specification of the lexical search                                     *)

MaxLines == 3
MaxRootLines == 2
MaxRoots == 2

LinePool ==
    { MatchLine("a.md", 1), MatchLine("a.md", 2), MatchLine("b.md", 1),
      MatchLine("", 1), OtherLine("begin"), OtherLine("null"),
      OtherLine("malformed"), OtherLine("blank") }

\* exit 1: no match; exit 2: the tool failed; -1: the tool could not be started
FailedRuns == {[exit |-> e, stdout |-> <<>>] : e \in {1, 2, -1}}
ToolRuns(n) == {[exit |-> 0, stdout |-> l] : l \in SeqsUpTo(LinePool, n)} \cup FailedRuns

LexicalInit ==
    /\ input \in [fn : {"textSearch"}, run : ToolRuns(MaxLines), limit : Limits]
            \cup [fn : {"exactSearch"},
                  runs : SeqsUpTo(ToolRuns(MaxRootLines), MaxRoots) \ {<<>>},
                  limit : Limits]
    /\ output = NotCalled
    /\ EmbedIdle /\ DiffIdle /\ QueryIdle /\ SyncIdle

\* DocIndex.exactSearch
CallTextSearch ==
    /\ input.fn = "textSearch" /\ ~output.done
    /\ output' = [done |-> TRUE, r |-> textSearch(input.run, input.limit)]
    /\ UNCHANGED <<input, queryVars, embedVars, diffVars, syncVars>>

\* CodeIndex.exactSearch
CallCodeExactSearch ==
    /\ input.fn = "exactSearch" /\ ~output.done
    /\ output' = [done |-> TRUE, r |-> codeExactSearch(input.runs, input.limit)]
    /\ UNCHANGED <<input, queryVars, embedVars, diffVars, syncVars>>

LexicalNext == CallTextSearch \/ CallCodeExactSearch

SpecLexical == LexicalInit /\ [][LexicalNext]_vars

----------------------------------------------------------------------------
(* Specification of the code chunkers, one loop iteration per step         *)

LBlank == <<>>
LComment == <<"//", "note">>
LCall == <<"foo", "(", ")">>
LCallSemi == <<"foo", "(", ")", ";">>
LClose == <<"}">>
LIf == <<"if", "(", "x", ")", "{">>
LFunction == <<"function", "f", "(", ")", "{">>
LArrowExport == <<"export", "const", "h", "=", "(", ")", "=>", "{">>
LArrow == <<"const", "k", "=", "async", "x", "=>">>
LConstExport == <<"export", "const", "n", "=", "1", ";">>
LType == <<"type", "T", "=", "string", ";">>
LInterface == <<"export", "interface", "I", "{", "}">>
LClass == <<"export", "abstract", "class", "C", "{">>

SrcLines ==
    { LBlank, LComment, LCall, LCallSemi, LClose, LIf, LFunction, LArrowExport,
      LArrow, LConstExport, LType, LInterface, LClass }

MaxSrcLines == 3

\* a declaration followed by n lines without brace and semicolon
LongFiles ==
    {<<d>> \o [k \in 1..n |-> LCall] : d \in {LArrow, LFunction}, n \in {49, 50, 55}}

\* two functions one after the other, a function inside a function
SampleFiles ==
    { <<LFunction, LCallSemi, LClose, LArrowExport, LCallSemi, LClose>>,
      <<LFunction, LArrowExport, LClose, LClose, LBlank>> }

SrcFiles == SeqsUpTo(SrcLines, MaxSrcLines) \cup LongFiles \cup SampleFiles

\* one iteration of the while loop of chunkByLines; w is [lines, i, chunkIndex,
\* chunks, windows], windows the history of the windows visited
windowBody(lines, path, w) ==
    LET endLine == Min(w.i + CHUNK_SIZE, Len(lines))
        chunkContent == Trim(JoinNl(SubSeq(lines, w.i + 1, endLine)))
        keep == StrLen(chunkContent) > MIN_CHUNK_CHARS
    IN  [lines |-> lines,
         i |-> w.i + CHUNK_SIZE - OVERLAP,
         chunkIndex |-> IF keep THEN w.chunkIndex + 1 ELSE w.chunkIndex,
         chunks |-> IF keep
                    THEN Append(w.chunks,
                             [content |-> chunkContent, endLine |-> endLine,
                              id |-> lineChunkId(path, w.chunkIndex),
                              path |-> path, startLine |-> w.i + 1,
                              symbolType |-> "block"])
                    ELSE w.chunks,
         windows |-> Append(w.windows,
                         [startLine |-> w.i + 1, endLine |-> endLine,
                          length |-> StrLen(chunkContent), kept |-> keep])]

\* const lines = content.split("\n"), before the first window
WindowStart(content) ==
    [lines |-> SplitNl(content), i |-> 0, chunkIndex |-> 0, chunks |-> <<>>,
     windows |-> <<>>]

\* the lines the loop of the called function runs over
LoopLines ==
    IF input.fn = "extractTsSymbols" THEN input.lines ELSE output.st.lines

\* the calls made: a file of source lines or the content of a code file
ScanInputs ==
    {[fn |-> "extractTsSymbols", lines |-> f] : f \in SrcFiles}
        \cup {[fn |-> "chunkByLines", path |-> 1, content |-> c] :
                  c \in CodeContents}

ScanInit ==
    /\ input = NoInput
    /\ output = NotCalled
    /\ EmbedIdle /\ DiffIdle /\ QueryIdle /\ SyncIdle

\* the function is entered: its loop variables are initialised
LoopEnter ==
    /\ output = NotCalled
    /\ \E call_in \in ScanInputs :
          /\ input' = call_in
          /\ output' = [done |-> FALSE, iterations |-> 0,
                        st |-> IF call_in.fn = "extractTsSymbols" THEN ScanStart
                               ELSE WindowStart(call_in.content)]
    /\ UNCHANGED <<queryVars, embedVars, diffVars, syncVars>>

\* extractTsSymbols: one iteration of its while loop
ScanStep ==
    /\ input.fn = "extractTsSymbols"
    /\ ~output.done /\ output # NotCalled
    /\ output.st.i < Len(input.lines)
    /\ output' = [output EXCEPT !.st = scanBody(input.lines, output.st),
                                !.iterations = @ + 1]
    /\ UNCHANGED <<input, queryVars, embedVars, diffVars, syncVars>>

\* chunkByLines: one iteration of its while loop
WindowStep ==
    /\ input.fn = "chunkByLines"
    /\ ~output.done /\ output # NotCalled
    /\ output.st.i < Len(LoopLines)
    /\ output' = [output EXCEPT
                      !.st = windowBody(LoopLines, input.path, output.st),
                      !.iterations = @ + 1]
    /\ UNCHANGED <<input, queryVars, embedVars, diffVars, syncVars>>

\* the loop condition is false: the function returns
LoopReturn ==
    /\ ~output.done /\ output # NotCalled
    /\ ~(output.st.i < Len(LoopLines))
    /\ output' = [output EXCEPT !.done = TRUE]
    /\ UNCHANGED <<input, queryVars, embedVars, diffVars, syncVars>>

\* detectLanguage(fullPath) of the files indexed
Languages == {"typescript", "javascript", "python"}

\* embedFile up to its chunks: extractSymbols, then the symbol chunks or the
\* windows of chunkByLines
EmbedFileChunks ==
    /\ output = NotCalled
    /\ \E f \in SrcFiles \ {<<>>}, language \in Languages :
          /\ input' = [fn |-> "embedFile", path |-> 1, lines |-> f,
                       language |-> language]
          /\ output' = [done |-> TRUE, chunks |-> codeFileChunks(1, f, language)]
    /\ UNCHANGED <<queryVars, embedVars, diffVars, syncVars>>

ScanNext == LoopEnter \/ ScanStep \/ WindowStep \/ LoopReturn \/ EmbedFileChunks

SpecScan == ScanInit /\ [][ScanNext]_vars

----------------------------------------------------------------------------
(* Specification of the added phase of a long sync, one await per step     *)
(* The files are counted, not named: entries is the number of added files  *)
(* with an entry in the manifest in memory, onDisk the number of them in   *)
(* the manifest file, saves the ordinals of the files after which          *)
(* saveManifest was called.                                                *)

MaxAdded == 102
AddedCounts == {1, 2, 50, 51, 52, 101, MaxAdded}

\* manifestPath && (i % 50 === 0 || i === diff.added.length - 1)
savesAfter(i, n, manifestPath) ==
    manifestPath /\ (i % SAVE_EVERY = 0 \/ i = n - 1)

AddedInit ==
    /\ input = NoInput
    /\ output = NotCalled
    /\ EmbedIdle /\ DiffIdle /\ QueryIdle /\ SyncIdle

\* the added phase is entered with diff.added of n files
AddedEnter ==
    /\ output = NotCalled
    /\ \E n \in AddedCounts, manifestPath \in BOOLEAN :
          input' = [fn |-> "addedPhase", added |-> n, manifestPath |-> manifestPath]
    /\ output' = [done |-> FALSE, threw |-> FALSE,
                  st |-> [i |-> 0, pc |-> "embed", entries |-> 0, onDisk |-> 0,
                          saves |-> <<>>, failedSaves |-> 0]]
    /\ UNCHANGED <<queryVars, embedVars, diffVars, syncVars>>

\* await this.embedFile(path) resolved: updateManifestEntry, then the test
\* for the incremental save
AddedFileIndexed ==
    /\ input.fn = "addedPhase" /\ ~output.done
    /\ output.st.pc = "embed" /\ output.st.i < input.added
    /\ output' = [output EXCEPT
          !.st = IF savesAfter(output.st.i, input.added, input.manifestPath)
                 THEN [@ EXCEPT !.entries = @ + 1, !.pc = "save",
                                !.saves = Append(@, output.st.i + 1)]
                 ELSE [@ EXCEPT !.entries = @ + 1, !.i = @ + 1]]
    /\ UNCHANGED <<input, queryVars, embedVars, diffVars, syncVars>>

\* await this.embedFile(path) rejected: syncFromDiff rejects
AddedFileFails ==
    /\ input.fn = "addedPhase" /\ ~output.done
    /\ output.st.pc = "embed" /\ output.st.i < input.added
    /\ output' = [output EXCEPT !.done = TRUE, !.threw = TRUE]
    /\ UNCHANGED <<input, queryVars, embedVars, diffVars, syncVars>>

\* await saveManifest(...).catch(() => {}) settled: written, or not written
\* and the rejection dropped
AddedSaveSettles ==
    /\ input.fn = "addedPhase" /\ ~output.done
    /\ output.st.pc = "save"
    /\ \E written \in BOOLEAN :
          output' = [output EXCEPT
              !.st = [@ EXCEPT !.pc = "embed", !.i = @ + 1,
                               !.onDisk = IF written THEN output.st.entries ELSE @,
                               !.failedSaves = IF written THEN @ ELSE @ + 1]]
    /\ UNCHANGED <<input, queryVars, embedVars, diffVars, syncVars>>

\* i = diff.added.length: the loop is left
AddedReturn ==
    /\ input.fn = "addedPhase" /\ ~output.done
    /\ output.st.pc = "embed" /\ ~(output.st.i < input.added)
    /\ output' = [output EXCEPT !.done = TRUE]
    /\ UNCHANGED <<input, queryVars, embedVars, diffVars, syncVars>>

AddedNext ==
    AddedEnter \/ AddedFileIndexed \/ AddedFileFails \/ AddedSaveSettles
        \/ AddedReturn

SpecAdded == AddedInit /\ [][AddedNext]_vars

----------------------------------------------------------------------------
(* Properties                                                              *)

Range(q) == {q[i] : i \in 1..Len(q)}
NoDup(q) == \A i, j \in 1..Len(q) : i # j => q[i] # q[j]

\* C4: embedTexts(texts) returns exactly len(texts) vectors and the i-th
\* vector is the embedding of texts[i], also when texts longer than the
\* per-item ceiling are interleaved with shorter ones.
C4_OrderAndCardinality ==
    embOut.done =>
        /\ Len(embOut.emb) = Len(texts)
        /\ \A i \in 1..Len(texts) : embOut.emb[i] = Vec(texts[i])

\* C5: diffManifest classifies every path of keys(current) \cup
\* keys(manifest) into exactly one of added / changed / unchanged /
\* removed by the stated rule; the lists have no duplicate, are pairwise
\* disjoint and their union is exactly keys(current) \cup keys(manifest).
C5_DiffPartition ==
    dOut.done =>
        LET d == dOut.diff
            cur == DOMAIN dCurrent
            man == DOMAIN dManifest
            a == Range(d.added)
            c == Range(d.changed)
            u == Range(d.unchanged)
            r == Range(d.removed)
        IN  /\ a = cur \ man
            /\ c = {p \in cur \cap man : dManifest[p].hash # dCurrent[p]}
            /\ u = {p \in cur \cap man : dManifest[p].hash = dCurrent[p]}
            /\ r = man \ cur
            /\ NoDup(d.added) /\ NoDup(d.changed)
            /\ NoDup(d.unchanged) /\ NoDup(d.removed)
            /\ a \cap c = {} /\ a \cap u = {} /\ a \cap r = {}
            /\ c \cap u = {} /\ c \cap r = {} /\ u \cap r = {}
            /\ a \cup c \cup u \cup r = cur \cup man

C5_Witness ==
    /\ dOut.done
    /\ dOut.diff.added # <<>> /\ dOut.diff.removed # <<>>
    /\ (dOut.diff.changed # <<>> \/ dOut.diff.unchanged # <<>>)

\* the points stored for a path, the entries of the running corpus
PointsOf(p) == {q \in store : q.path = p}
Entries(m) == m[corpus]
OnDisk == Entries(loadManifest(disk))
Stopped == pos.pc \in {"interrupted", "crashed"}
Finished == processed \ Range(diff.removed)

\* C1: in every state during or after a sync run, also after a failure or
\* an interrupt, a manifest entry (in memory or on disk) records hash h for
\* a path only if the chunks of the content with hash h were embedded and
\* upserted; a file whose embed or upsert failed keeps the entry it had.
C1_RecordedOnlyIfIndexed ==
    /\ \A p \in DOMAIN Entries(manifest) :
          <<p, Entries(manifest)[p].hash>> \in indexed
    /\ \A p \in DOMAIN OnDisk : <<p, OnDisk[p].hash>> \in indexed
    /\ failure.op \in {"embed", "upsert"} =>
          IF CurPath \in DOMAIN Entries(loaded)
          THEN /\ CurPath \in DOMAIN Entries(manifest)
               /\ Entries(manifest)[CurPath] = Entries(loaded)[CurPath]
          ELSE CurPath \notin DOMAIN Entries(manifest)

C1_Witness ==
    /\ pos.pc \in {"threw", "interrupted"}
    /\ failure.op \in {"embed", "upsert"}
    /\ processed # {}
    /\ OnDisk # <<>>

\* C2: a failed embed or upsert of one file is not propagated to the caller
\* of syncFromDiff: the run goes on with the remaining files.
C2_FailureContained ==
    failure.op \in {"embed", "upsert"} => pos.pc # "threw"

\* C3: every stored point carries the vector computed from its own chunk's
\* content, for any mix of chunk lengths.
C3_OwnVector == \A q \in store : q.vector = Vec(q.content)

\* C6: after a run that completed without failure, a run over the same
\* files finds every scanned file unchanged (added, changed and removed are
\* empty), issues no embed, upsert or delete call and leaves the manifest,
\* in memory and (unless the process dies while writing it) on disk, as it
\* was.
C6_IdempotentRerun ==
    (prevClean /\ ~forced /\ pos.pc # "idle") =>
        /\ diff.added = <<>> /\ diff.changed = <<>> /\ diff.removed = <<>>
        /\ Range(diff.unchanged) = DOMAIN fs
        /\ issued = {}
        /\ manifest = loaded
        /\ pos.pc # "crashed" => loadManifest(disk) = loaded

C6_Witness ==
    /\ prevClean /\ ~forced /\ pos.pc = "done"
    /\ Cardinality(DOMAIN fs) = 2
    /\ store # {}

\* C7: the manifest entry of a removed path is dropped only after the
\* delete-by-path call for it has completed, a failed delete leaves the
\* entry in place, and once the path is processed the manifest has no entry
\* for it and the store holds no point with that path.
C7_DeleteBeforeForget ==
    /\ [](\A p \in processed \cap Range(diff.removed) :
             p \notin DOMAIN Entries(manifest) /\ PointsOf(p) = {})
    /\ []((failure.op = "delete" /\ pos.phase = "removed") =>
             CurPath \in DOMAIN Entries(manifest))
    /\ [][\A p \in DOMAIN manifest[corpus] \ DOMAIN manifest'[corpus] :
             \/ pos'.pc = "idle"
             \/ /\ pos.pc = "rm_delete" /\ call = "ok" /\ CurPath = p
                /\ PointsOf(p) = {}]_vars
    /\ [][(pos.pc = "rm_delete" /\ call = "err") => manifest' = manifest]_vars

C7_Witness ==
    /\ processed \cap Range(diff.removed) # {}
    /\ store # {}
    /\ pos.pc = "done"

\* C8: after a changed path is processed, the points stored for it are
\* exactly the chunks of the new content, one point per chunk, and the
\* manifest entry holds the new hash and the new chunk count.
C8_ChangedReplaced ==
    \A p \in processed \cap Range(diff.changed) :
        LET chunks == FileChunks(p)
        IN  /\ {[id |-> q.originalId, content |-> q.content] : q \in PointsOf(p)}
                 = {[id |-> chunks[i].id, content |-> chunks[i].content] :
                        i \in 1..Len(chunks)}
            /\ Cardinality(PointsOf(p)) = Len(chunks)
            /\ p \in DOMAIN Entries(manifest)
            /\ Entries(manifest)[p].hash = hashContent(fs[p])
            /\ Entries(manifest)[p].chunkCount = Len(chunks)

RECURSIVE ConcatAll(_, _)
ConcatAll(pieces, i) ==
    IF i > Len(pieces) THEN <<>> ELSE Concat(pieces[i], ConcatAll(pieces, i + 1))

NoLineBreak(t) == \A i \in 1..Len(t) : t[i][1] # "nl"
NoEdgeWs(t) == t # <<>> /\ ~IsWs(t[1][1]) /\ ~IsWs(t[Len(t)][1])

\* C11: every piece splitTextIntoChunks(text, C) produces has length at most
\* C = 6000, so no value sent to the provider is longer than C; a text of
\* length L > C without line break and without leading or trailing
\* whitespace gives exactly ceil(L / C) pieces whose concatenation is the
\* text, and embedTexts returns one vector per piece, in order.
C11_SplitPieces ==
    (embOut.done /\ Len(texts) = 1) =>
        LET text == texts[1]
            C == MAX_CHARS_PER_TEXT
            L == StrLen(text)
            pieces == splitTextIntoChunks(text, C)
        IN  /\ \A i \in 1..Len(pieces) : StrLen(pieces[i]) <= C
            /\ \A c \in 1..Len(embCalls) : \A i \in 1..Len(embCalls[c]) :
                   StrLen(embCalls[c][i]) <= C
            /\ embOut.emb = [i \in 1..Len(pieces) |-> Vec(pieces[i])]
            /\ (L > C /\ NoLineBreak(text) /\ NoEdgeWs(text)) =>
                   /\ Len(pieces) = (L + C - 1) \div C
                   /\ ConcatAll(pieces, 1) = text

C11_Witness ==
    /\ embOut.done
    /\ texts = <<A(20000)>>
    /\ Len(embOut.emb) = 4
    /\ embCalls = <<<<A(6000), A(6000), A(6000), A(2000)>>>>

\* C12: every chunk content produced by DocIndex.createChunks / splitContent
\* and by CodeIndex.chunkByLines has at most maxCharsPerText (6000)
\* characters, unless it has no line break at which it could be split.
C12_ChunkBudget ==
    output.done =>
        \A i \in 1..Len(output.chunks) :
            LET content == IF input.fn = "splitContent" THEN output.chunks[i]
                           ELSE output.chunks[i].content
            IN  \/ StrLen(content) <= MAX_CHARS_PER_TEXT
                \/ NoLineBreak(content)

\* C13: when the manifest file is missing, cannot be read or parsed, has no
\* usable version field or has another version than the current one,
\* loadManifest returns the empty manifest, and the next diff classifies
\* every scanned file as added and none as removed.
C13_LoadFallsBackToEmpty ==
    (output.done /\ (input.file.kind # "json"
                        \/ input.file.m.version # MANIFEST_VERSION)) =>
        /\ output.manifest = [code |-> <<>>, docs |-> <<>>, version |-> 1]
        /\ Range(output.diff.added) = DOMAIN input.scan
        /\ NoDup(output.diff.added)
        /\ output.diff.removed = <<>>
        /\ output.diff.changed = <<>> /\ output.diff.unchanged = <<>>

C13_Witness ==
    /\ output.done
    /\ input.file.kind = "json" /\ input.file.m.version = 2
    /\ DOMAIN input.file.m.docs = {1, 2}
    /\ DOMAIN input.scan = {1}
    /\ output.diff.added = <<1>>

\* C14: no delete, embed or upsert call is issued for a path classified
\* unchanged, and no step of the run changes its manifest entry or its
\* stored points; when exactly one file changed, every call of the run is
\* for that file.
C14_UnchangedUntouched ==
    /\ [](\A x \in issued : x[2] \notin Range(diff.unchanged))
    /\ []((Len(diff.changed) = 1 /\ diff.added = <<>> /\ diff.removed = <<>>) =>
             \A x \in issued : x[2] = diff.changed[1])
    /\ [][Running =>
             \A p \in Range(diff.unchanged) :
                /\ {q \in store' : q.path = p} = {q \in store : q.path = p}
                /\ p \in DOMAIN manifest'[corpus]
                /\ manifest'[corpus][p] = manifest[corpus][p]]_vars

C14_Witness ==
    /\ pos.pc = "done"
    /\ Len(diff.changed) = 1 /\ Len(diff.unchanged) = 1
    /\ diff.added = <<>> /\ diff.removed = <<>>
    /\ PointsOf(diff.unchanged[1]) # {}
    /\ PointsOf(diff.changed[1]) # {}
    /\ <<"delete", diff.changed[1]>> \in issued
    /\ <<"upsert", diff.changed[1]>> \in issued

\* C15: a file whose embed or upsert failed in one run and that was not modified
\* since is classified added or changed by the next run, and when that run
\* completes its manifest entry records its current hash, with its chunks
\* embedded and upserted.
C15_RetriedNextRun ==
    (pos.pc # "idle" /\ retry # 0 /\ retry \in DOMAIN fs) =>
        /\ retry \in Range(diff.added) \cup Range(diff.changed)
        /\ pos.pc = "done" =>
              /\ retry \in DOMAIN Entries(manifest)
              /\ Entries(manifest)[retry].hash = hashContent(fs[retry])
              /\ <<retry, hashContent(fs[retry])>> \in indexed

\* C16: one coordinator never has two embedding-provider or vector-store
\* calls in flight at the same time in its query methods (semanticSearch,
\* hybridSearch with rerank) and in the re-indexing of files by indexFile.
C16_OneCallInFlight == Cardinality(RemoteCalls) <= 1

\* the embedText calls that rerankResults issued
RerankLog == SelectSeq(embedLog, LAMBDA e : e.by = "rerank")

\* C17: rerankResults returns a list of at most limit results unchanged and
\* without an embedding call; otherwise it embeds the query once and every
\* candidate once and returns exactly limit results, each an input result
\* with the cosine similarity of its content to the query as score, in
\* descending order of score; hybridSearch reranks the results of a
\* semantic search for limit * 2.
C17_RerankTopN ==
    (qPc = "returned" /\ qCall.fn \in {"rerank", "hybridSearch"}) =>
        LET out == qOut.results
            qv  == providerEmbedding(qCall.query)
        IN  /\ qCall.fn = "hybridSearch" =>
                   cands = searchDocs(collection, qv, qCall.limit * 2)
            /\ IF Len(cands) <= qCall.limit
               THEN out = cands /\ RerankLog = <<>>
               ELSE /\ Len(RerankLog) = Len(cands) + 1
                    /\ Cardinality({k \in DOMAIN RerankLog :
                           RerankLog[k].who = 0
                           /\ RerankLog[k].text = qCall.query}) = 1
                    /\ \A i \in 1..Len(cands) :
                           Cardinality({k \in DOMAIN RerankLog :
                               RerankLog[k].who = i
                               /\ RerankLog[k].text = cands[i].content}) = 1
                    /\ Len(out) = qCall.limit
                    /\ \E f \in [1..Len(out) -> 1..Len(cands)] :
                           /\ \A j, k \in 1..Len(out) : f[j] = f[k] => j = k
                           /\ \A k \in 1..Len(out) :
                                  out[k] = [cands[f[k]] EXCEPT !.score =
                                      cosineSimilarity(qv,
                                          providerEmbedding(cands[f[k]].content))]
                    /\ \A k \in 1..(Len(out) - 1) : out[k].score >= out[k + 1].score

\* rerank of four results for limit 2 whose best result was not the first
C17_Witness ==
    /\ qPc = "returned" /\ qCall.fn = "rerank"
    /\ Len(cands) = 4 /\ qCall.limit = 2
    /\ qOut.results[1].path # cands[1].path
    /\ qOut.results[1].score > qOut.results[2].score

\* the runs of the search tool that a lexical search awaited
RunsOf(in) == IF in.fn = "textSearch" THEN <<in.run>> ELSE in.runs

\* C18: exactSearch of DocIndex and of CodeIndex returns at most limit
\* results and at most one result per file path, whatever the tool prints.
C18_LimitAndOnePerPath ==
    (output.done /\ input.fn \in {"textSearch", "exactSearch"} /\ output.r.ok) =>
        /\ Len(output.r.results) <= input.limit
        /\ \A i, j \in 1..Len(output.r.results) :
               output.r.results[i].path = output.r.results[j].path => i = j

\* C19: when every run of the tool exits with 1 (no match) the lexical
\* search returns an empty list without error, and when the only run exits
\* with another non-zero code the search fails and returns no list.
C19_ExitCodes ==
    (output.done /\ input.fn \in {"textSearch", "exactSearch"}) =>
        /\ (\A k \in DOMAIN RunsOf(input) : RunsOf(input)[k].exit = 1) =>
               output.r.ok /\ output.r.results = <<>>
        /\ (Len(RunsOf(input)) = 1 /\ RunsOf(input)[1].exit > 1) => ~output.r.ok

\* n[1] + ... + n[k]
RECURSIVE SumTo(_, _)
SumTo(n, k) == IF k = 0 THEN 0 ELSE SumTo(n, k - 1) + n[k]

\* chunks is, section after section, no chunk for a blank section, one chunk
\* for any other section of at most 1000 characters, and the chunks of a
\* section carry the id path#sectionId, with the suffix -0, -1, ... when the
\* section has more than one
FollowsIdRule(path, doc, chunks) ==
    \E n \in [1..Len(doc.sections) -> 0..3] :
        /\ Len(chunks) = SumTo(n, Len(doc.sections))
        /\ \A k \in 1..Len(doc.sections) :
              LET s == doc.sections[k]
              IN  /\ Trim(s.content) = <<>> => n[k] = 0
                  /\ (Trim(s.content) # <<>> /\ StrLen(s.content) <= 1000)
                         => n[k] = 1
                  /\ \A i \in 0..(n[k] - 1) :
                        LET c == chunks[SumTo(n, k - 1) + i + 1]
                        IN  /\ c.section = s.heading
                            /\ c.id = <<path, "#">> \o generateSectionId(s.heading)
                                   \o (IF n[k] > 1 THEN <<"-">> \o Decimal(i)
                                       ELSE <<>>)

\* C20 (the chunker alone): the chunks of createChunks follow the id rule
\* for every document of up to MaxSections sections.
C20_ChunkIds ==
    (output.done /\ input.fn = "createChunks") =>
        FollowsIdRule(input.path, input.doc, output.chunks)

\* C20: createChunks gives no chunk for a blank section, one chunk with the
\* id path#sectionId for any other section of at most 1000 characters and
\* the ids path#sectionId-0 ... for a section split into several chunks, in
\* section order; a completed sync that started from an empty manifest has
\* classified every file as added and ends with one manifest entry per
\* file whose chunkCount is the number of chunks of the file, the ids of the
\* points stored for it being the ids of its chunks.
C20_FreshSync ==
    (pos.pc = "done" /\ loaded = createEmptyManifest) =>
        /\ Range(diff.added) = DOMAIN fs
        /\ Len(diff.added) = Cardinality(DOMAIN fs)
        /\ diff.changed = <<>> /\ diff.removed = <<>> /\ diff.unchanged = <<>>
        /\ DOMAIN Entries(manifest) = DOMAIN fs
        /\ \A p \in DOMAIN fs :
              /\ FollowsIdRule(p, fs[p], createChunks(p, fs[p]))
              /\ Entries(manifest)[p].chunkCount = Len(createChunks(p, fs[p]))
              /\ {pt.originalId : pt \in PointsOf(p)}
                     = {createChunks(p, fs[p])[i].id :
                            i \in 1..Len(createChunks(p, fs[p]))}

\* a fresh sync of two files completed: one with a blank and two one-chunk
\* sections, one with a section split in two
C20_Witness ==
    /\ pos.pc = "done" /\ loaded = createEmptyManifest
    /\ DOMAIN fs = SyncPaths
    /\ fs[1] = DocLong /\ fs[2] = DocNotes
    /\ Entries(manifest)[1].chunkCount = 2
    /\ Entries(manifest)[2].chunkCount = 4

\* the run has ended: completed, rejected, interrupted (handler done) or killed
RunStopped ==
    \/ pos.pc \in {"done", "threw", "crashed"}
    \/ pos.pc = "interrupted" /\ call # "pending"

\* C21: when a sync run has stopped, a path whose manifest entry on disk
\* records hash h has in the store the chunks of the content with hash h:
\* a point for every chunk id, every point with the content of a chunk of it.
C21_RecordedStillStored ==
    RunStopped =>
        \A p \in DOMAIN OnDisk :
            LET chunks == createChunks(p, OnDisk[p].hash.sha256)
            IN  /\ \A i \in 1..Len(chunks) :
                       \E q \in PointsOf(p) : q.originalId = chunks[i].id
                /\ \A q \in PointsOf(p) :
                       \E i \in 1..Len(chunks) :
                           /\ q.originalId = chunks[i].id
                           /\ q.content = chunks[i].content

\* C22: the chunk ids created for a file are pairwise distinct, so the
\* points that an upsert of its chunks stores are as many as its chunks.
C22_DistinctChunkIds ==
    (output.done /\ input.fn \in {"createChunks", "chunkByLines"}) =>
        /\ \A i, j \in 1..Len(output.chunks) :
               output.chunks[i].id = output.chunks[j].id => i = j
        /\ Cardinality({stringToUuid(output.chunks[i].id) :
                            i \in 1..Len(output.chunks)}) = Len(output.chunks)

\* C23: after a completed sync run every path that has points in the
\* collection has an entry in the manifest, in memory and on disk.
C23_NoOrphanPoints ==
    pos.pc = "done" =>
        \A q \in store :
            q.path \in DOMAIN Entries(manifest) /\ q.path \in DOMAIN OnDisk

\* the non-blank paragraphs of a list of strings, trimmed, in order
RECURSIVE ParasOf(_, _)
ParasOf(strs, i) ==
    IF i > Len(strs) THEN <<>>
    ELSE LET ps == SplitPara(strs[i])
             tr == [k \in 1..Len(ps) |-> Trim(ps[k])]
         IN  SelectSeq(tr, LAMBDA x : x # <<>>) \o ParasOf(strs, i + 1)

\* C24: splitContent of a content longer than the ceiling: a chunk of two
\* or more paragraphs is at most ceiling characters long (only a chunk of a
\* single paragraph can be longer), and the paragraphs of the chunks are
\* the paragraphs of the content, each once and in order.
C24_GreedyPack ==
    (output.done /\ input.fn = "splitContent"
         /\ StrLen(input.content) > input.maxChars) =>
        /\ \A i \in 1..Len(output.chunks) :
               Len(SplitPara(output.chunks[i])) >= 2
                   => StrLen(output.chunks[i]) <= input.maxChars
        /\ ParasOf(output.chunks, 1) = ParasOf(<<input.content>>, 1)

\* brace depth at the end of line j, counted from line s
RECURSIVE DepthAt(_, _, _)
DepthAt(lines, s, j) ==
    IF j < s THEN 0
    ELSE DepthAt(lines, s, j - 1)
             + CountTok(lines[j], "{") - CountTok(lines[j], "}")

OpenedBy(lines, s, j) == \E k \in s..j : CountTok(lines[k], "{") > 0

\* line j ends the symbol that starts at line s
EndsAt(lines, s, j) ==
    IF OpenedBy(lines, s, j) THEN DepthAt(lines, s, j) = 0
    ELSE EndsWithSemi(lines[j]) \/ lines[j] = <<>>

\* the end line of the declaration at line s: the first line from s on that
\* ends it, else 50 lines after the start or the last line
StatedEnd(lines, s) ==
    IF \E j \in s..Len(lines) : EndsAt(lines, s, j)
    THEN CHOOSE j \in s..Len(lines) :
             EndsAt(lines, s, j) /\ \A k \in s..(j - 1) : ~EndsAt(lines, s, k)
    ELSE Min(s - 1 + SYMBOL_CAP, Len(lines))

\* C25: findSymbolEnd of a matched declaration line ends the symbol at the
\* first line, from the matched line on, at which an opened brace is
\* balanced again or, no brace opened so far, that ends with a semicolon or
\* is blank; without such a line 50 lines after its start or at the last line.
C25_SymbolEnd ==
    (input.fn = "extractTsSymbols" /\ output # NotCalled) =>
        \A k \in 1..Len(output.st.seen) :
            output.st.seen[k].endLine
                = StatedEnd(input.lines, output.st.seen[k].idx + 1)

SymbolTypes == {"function", "class", "interface", "type", "const", "block"}

\* C26: the first pattern that matches in the order function, class,
\* interface, type alias, const/let export, arrow function fixes the name
\* and the symbolType of a matched line, and every symbolType is one of
\* function, class, interface, type, const, block.
C26_PatternOrder ==
    (input.fn = "extractTsSymbols" /\ output # NotCalled) =>
        /\ \A k \in 1..Len(output.st.seen) :
              LET line == input.lines[output.st.seen[k].idx + 1]
                  key  == firstMatch(StatedOrder, 1, line)
              IN  /\ output.st.seen[k].name = matchPattern(key, line)
                  /\ output.st.seen[k].type = mapSymbolType(key)
        /\ \A k \in 1..Len(output.st.symbols) :
              output.st.symbols[k].type \in SymbolTypes

\* C26 as the code has it: the patterns are tested in the order of the keys
\* of TS_SYMBOL_PATTERNS, arrow function, class, const/let export, function,
\* interface, type alias; the first that matches fixes the name and the
\* symbolType, and every symbolType is one of the six.
C26_LiteralOrder ==
    (input.fn = "extractTsSymbols" /\ output # NotCalled) =>
        /\ \A k \in 1..Len(output.st.seen) :
              LET line == input.lines[output.st.seen[k].idx + 1]
                  key  == firstMatch(<<"arrowFunction", "class", "constExport",
                                       "function", "interface", "type">>, 1, line)
              IN  /\ output.st.seen[k].name = matchPattern(key, line)
                  /\ output.st.seen[k].type = mapSymbolType(key)
        /\ \A k \in 1..Len(output.st.symbols) :
              output.st.symbols[k].type \in SymbolTypes

\* an exported arrow function, which the const/let export pattern matches
\* too, was emitted as a function
C26_Witness ==
    /\ input.fn = "extractTsSymbols" /\ output.done
    /\ \E k \in 1..Len(output.st.symbols) :
          LET line == input.lines[output.st.symbols[k].startLine]
          IN  /\ matchConstExport(line) # "" /\ matchArrowFunction(line) # ""
              /\ output.st.symbols[k].type = "function"

\* C27: the symbols of extractTsSymbols are in increasing line order and do
\* not overlap, satisfy 1 <= startLine < endLine <= number of lines, hold
\* the lines startLine..endLine, and are exactly the matched declarations
\* that span at least 2 lines.
C27_SymbolsDisjoint ==
    (input.fn = "extractTsSymbols" /\ output # NotCalled) =>
        LET syms == output.st.symbols
            seen == output.st.seen
        IN  /\ \A k \in 1..Len(syms) :
                  /\ 1 <= syms[k].startLine
                  /\ syms[k].startLine < syms[k].endLine
                  /\ syms[k].endLine <= Len(input.lines)
                  /\ syms[k].content
                         = SubSeq(input.lines, syms[k].startLine, syms[k].endLine)
            /\ \A k \in 1..(Len(syms) - 1) : syms[k].endLine < syms[k + 1].startLine
            /\ {<<syms[k].startLine, syms[k].endLine>> : k \in 1..Len(syms)}
                   = {<<seen[k].idx + 1, seen[k].endLine>> :
                          k \in {j \in 1..Len(seen) : seen[j].endLine - seen[j].idx >= 2}}

\* two symbols were emitted and a one-line declaration was dropped
C27_Witness ==
    /\ input.fn = "extractTsSymbols" /\ output.done
    /\ Len(output.st.symbols) = 2
    /\ output.st.symbols[2].startLine = 4

\* a one-line declaration was matched and not emitted, a later one was
C27_WitnessDropped ==
    /\ input.fn = "extractTsSymbols" /\ output.done
    /\ Len(output.st.seen) = 2 /\ Len(output.st.symbols) = 1

\* the chunks come from chunkByLines: blocks with the ids chunk:0, chunk:1, ...
LineChunks(chunks) ==
    \A k \in 1..Len(chunks) :
        /\ chunks[k].symbolType = "block"
        /\ chunks[k].id = lineChunkId(chunks[k].path, k - 1)

\* C28: a file is chunked by chunkByLines exactly when its language has no
\* symbol extraction or extractTsSymbols emits no symbol; the windows start
\* at lines 1, 51, 101, ... and span up to 60 lines, so that full windows
\* share 10 lines and every line lies in a window; a window is discarded
\* exactly when its trimmed content is under 50 characters, and the kept
\* windows are the chunks, of symbolType block, with their startLine and
\* endLine and the ids chunk:0, chunk:1, ... without gaps.
C28_LineWindows ==
    /\ (input.fn = "embedFile" /\ output.done) =>
          LET fallback ==
                  \/ input.language \notin {"typescript", "javascript"}
                  \/ extractTsSymbols(input.lines) = <<>>
          IN  IF fallback
              THEN /\ LineChunks(output.chunks)
                   /\ output.chunks = chunkByLines(fileText(input.lines), input.path)
              ELSE /\ output.chunks # <<>>
                   /\ \A k \in 1..Len(output.chunks) :
                          output.chunks[k].symbolType # "block"
    /\ (input.fn = "chunkByLines" /\ output # NotCalled) =>
          LET n == Len(output.st.lines)
              windows == output.st.windows
              kept == SelectSeq(windows, LAMBDA w : w.kept)
              chunks == output.st.chunks
          IN  /\ \A k \in 1..Len(windows) :
                    /\ windows[k].startLine = 50 * (k - 1) + 1
                    /\ windows[k].endLine = Min(windows[k].startLine + 59, n)
                    /\ windows[k].kept <=> ~(windows[k].length < 50)
              /\ \A k \in 1..(Len(windows) - 1) :
                    windows[k].endLine - windows[k].startLine + 1 = 60
                        /\ windows[k + 1].endLine - windows[k + 1].startLine + 1 = 60
                    => windows[k].endLine - windows[k + 1].startLine + 1 = 10
              /\ output.done =>
                    \A line \in 1..n : \E k \in 1..Len(windows) :
                        windows[k].startLine <= line /\ line <= windows[k].endLine
              /\ Len(chunks) = Len(kept) /\ LineChunks(chunks)
              /\ \A k \in 1..Len(chunks) :
                    /\ chunks[k].startLine = kept[k].startLine
                    /\ chunks[k].endLine = kept[k].endLine
                    /\ chunks[k].content
                           = Trim(JoinNl(SubSeq(output.st.lines,
                                                chunks[k].startLine, chunks[k].endLine)))

\* the ordinals 1, 51, 101, ... and n, up to k
SaveOrdinals(k, n) ==
    {j \in 1..k : (j - 1) % 50 = 0 \/ j = n}

\* C29: in the added phase run with a manifest path the manifest is written
\* after the 1st, 51st, 101st, ... and after the last added file, so that
\* never more than 50 processed added files have an entry that is not on
\* disk; a failed periodic save stops neither the phase nor the run.
C29_PeriodicSave ==
    (input.fn = "addedPhase" /\ input.manifestPath) =>
        /\ Range(output.st.saves) = SaveOrdinals(output.st.entries, input.added)
        /\ output.st.entries - output.st.onDisk <= 50
        /\ output.threw => output.st.pc = "embed"
        /\ (output.done /\ ~output.threw) => output.st.entries = input.added

\* the cursor of a loop iteration moves forward, in extractTsSymbols not
\* past the number of lines
StepAdvances ==
    (input.fn \in {"extractTsSymbols", "chunkByLines"} /\ ~output'.done) =>
        /\ output'.st.i > output.st.i
        /\ input.fn = "extractTsSymbols" => output'.st.i <= Len(input.lines)

\* C30: extractTsSymbols and chunkByLines terminate: every iteration moves
\* the cursor forward (findSymbolEnd returns an index above the one it
\* started from and at most the number of lines, the window start advances
\* by 50), so that a call makes at most as many iterations as there are lines.
C30_Terminates ==
    /\ [][StepAdvances]_vars
    /\ [][(output # NotCalled /\ input.fn = "chunkByLines" /\ ~output'.done)
              => output'.st.i = output.st.i + 50]_vars
    /\ [](input.fn \in {"extractTsSymbols", "chunkByLines"} =>
              output.iterations <= Len(LoopLines))

\* a symbol that ran into the 50-line cap was passed and the call returned
C30_Witness ==
    /\ input.fn = "extractTsSymbols" /\ output.done
    /\ Len(input.lines) = 56
    /\ Len(output.st.seen) = 1 /\ output.st.seen[1].endLine = 50

\* C10: every embedMany call issued by embedTexts carries at most
\* maxCharsPerBatch characters in total, except a call holding one single
\* oversized item.
C10_BatchBudget ==
    embOut.done =>
        \A c \in 1..Len(embCalls) :
            \/ SumLen(embCalls[c]) <= MAX_CHARS_PER_BATCH
            \/ /\ Len(embCalls[c]) = 1
               /\ StrLen(embCalls[c][1]) > MAX_CHARS_PER_TEXT

====
